---------------------------- MODULE Spec2Model ----------------------------
(***************************************************************************)
(* Carbon-calculation-mapper: the serverless functions that estimate       *)
(* carbon storage for a polygon and that proxy a remote compute service.   *)
(*                                                                         *)
(*   SpecPoll      one invocation of a polling handler                     *)
(*                 (gee-ndvi-timeseries, test-gee-hardcoded and the NDVI   *)
(*                 variant kept in calculate-carbon-gee/index.ts)          *)
(*   SpecPollFair  the same, with every pending await eventually settling  *)
(*   SpecCalc      one invocation of a calculate-carbon-gee handler        *)
(*   SpecEngine    the two estimation engines applied to drawn inputs      *)
(*   SpecTile      one getTileUrl invocation of the live variant           *)
(*   SpecArea      calculatePolygonArea of the map client on drawn rings   *)
(*   SpecClient    the MapInterface component: drawing and calculating     *)
(*   SpecTm        TileManager with useMapTiles: loading dataset tiles     *)
(*   SpecPx        the get-gee-tiles function and its API key              *)
(***************************************************************************)
EXTENDS Integers, Sequences, FiniteSets, TLC

VARIABLES
    \* ---- polling handlers ----
    handler,         \* which polling handler serves the invocation
    pc,              \* position of the async handler (which await it is at)
    attempts,        \* loop counter (attempt / attempts)
    tokenData,       \* TRUE once tokenData.access_token was obtained
    geeData,         \* parsed body of the compute POST response
    pollData,        \* parsed body of the latest status fetch
    response,        \* the Response the handler returned
    tokenRequests,   \* requests sent to the token endpoint
    computeRequests, \* POSTs sent to the compute endpoint
    statusFetches,   \* GETs sent for the job status
    outstanding,     \* status fetches sent and not yet settled
    waits,           \* 2-second waits that have elapsed
    notDoneFetches,  \* settled status fetches whose body did not read done = true
    doneTrueFetches, \* settled status fetches whose body read done = true
    credential,      \* GEE_SERVICE_ACCOUNT as the invocation found it
    \* ---- calculate-carbon-gee handlers ----
    calcHandler,     \* which variant of the handler serves the invocation
    calcPc,          \* position of the async handler
    calcRequest,     \* the parsed request body
    calcEstimate,    \* what calculateCarbonWithGEE / calculateCarbonWithLiveGEE returned
    calcResponse,    \* the Response the handler returned
    calcStored,      \* the row inserted into carbon_calculations
    calcDbInserts,   \* insert requests sent to the database
    calcCredential,  \* GEE_SERVICE_ACCOUNT as calculateCarbonWithGEE found it
    \* ---- estimation engines ----
    engInput,        \* the arguments of the engine call
    engOutput,       \* what the engine returned (or threw)
    \* ---- getTileUrl requests of the live variant ----
    tilePc,          \* position of the async handler
    tileRequest,     \* the parsed request body
    tileCredential,  \* GEE_SERVICE_ACCOUNT as generateGEETileUrl found it
    tileAuthToken,   \* what getGEEAuthToken returned
    tileTokenRequests, \* requests sent to the token endpoint
    tileMapRequests, \* POSTs sent to the Earth Engine maps endpoint
    tileResponse,    \* the Response the handler returned
    \* ---- calculatePolygonArea of the map client ----
    areaVariant,     \* which copy of the function is called
    areaCoords,      \* its argument
    areaResult,      \* what it returned (or threw)
    \* ---- MapInterface of the map client ----
    uiVariant,       \* which copy of the component runs
    uiDrawing,       \* drawingMode / isDrawing
    uiCoords,        \* drawingPoints / coordinates / drawingCoords
    uiLayers,        \* markers, layers and sources on the map
    uiSelectedArea,  \* selectedArea
    uiCarbon,        \* carbonCalculation
    uiCalculating,   \* calculationLoading / isCalculating
    uiPending,       \* calculate-carbon-gee requests in flight
    uiLastSent,      \* body of the latest request sent
    uiRequests,      \* requests sent so far
    uiClicks,        \* map clicks so far
    uiTimer,         \* a setTimeout of startDrawing is pending
    \* ---- TileManager with useMapTiles ----
    tmSelected,      \* selectedDataset (its id), "none" for null
    tmPending,       \* loadTile calls awaiting get-gee-tiles
    tmActiveTile,    \* activeTile of useMapTiles
    tmLayers,        \* ids of the layers of the map
    tmSources,       \* ids of the sources of the map
    tmCurrentLayerId, \* currentLayerId.current
    tmLoading,       \* isLoading of useMapTiles
    tmLoads,         \* loadTile calls so far
    tmSettled,       \* outcome of each settled loadTile call, by call
    \* ---- get-gee-tiles ----
    pxVariant,       \* which copy of the function runs
    pxPc,            \* idle, api, tile or responded
    pxRequest,       \* the request being served
    pxFetched,       \* what the URL of the fetch in flight is made of
    pxResponse       \* the Response returned

pollVars == <<handler, pc, attempts, tokenData, geeData, pollData, response,
              tokenRequests, computeRequests, statusFetches, outstanding,
              waits, notDoneFetches, doneTrueFetches, credential>>

calcVars == <<calcHandler, calcPc, calcRequest, calcEstimate, calcResponse,
              calcStored, calcDbInserts, calcCredential>>

engVars == <<engInput, engOutput>>

tileVars == <<tilePc, tileRequest, tileCredential, tileAuthToken,
              tileTokenRequests, tileMapRequests, tileResponse>>

areaVars == <<areaVariant, areaCoords, areaResult>>

clientVars == <<uiVariant, uiDrawing, uiCoords, uiLayers, uiSelectedArea, uiCarbon,
                uiCalculating, uiPending, uiLastSent, uiRequests, uiClicks, uiTimer>>

tmVars == <<tmSelected, tmPending, tmActiveTile, tmLayers, tmSources, tmCurrentLayerId,
            tmLoading, tmLoads, tmSettled>>

pxVars == <<pxVariant, pxPc, pxRequest, pxFetched, pxResponse>>

vars == <<pollVars, calcVars, engVars, tileVars, areaVars, clientVars, tmVars, pxVars>>

nonPollVars == <<calcVars, engVars, tileVars, areaVars, clientVars, tmVars, pxVars>>
nonCalcVars == <<pollVars, engVars, tileVars, areaVars, clientVars, tmVars, pxVars>>
nonEngVars == <<pollVars, calcVars, tileVars, areaVars, clientVars, tmVars, pxVars>>
nonTileVars == <<pollVars, calcVars, engVars, areaVars, clientVars, tmVars, pxVars>>
nonAreaVars == <<pollVars, calcVars, engVars, tileVars, clientVars, tmVars, pxVars>>
nonClientVars == <<pollVars, calcVars, engVars, tileVars, areaVars, tmVars, pxVars>>
nonTmVars == <<pollVars, calcVars, engVars, tileVars, areaVars, clientVars, pxVars>>
nonPxVars == <<pollVars, calcVars, engVars, tileVars, areaVars, clientVars, tmVars>>

(***************************************************************************)
(* Bounds of the model.                                                    *)
(***************************************************************************)
MaxFeatures == 2      \* features in one result payload

(***************************************************************************)
(* Program constants.                                                      *)
(***************************************************************************)
MaxAttemptsTimeseries == 15
MaxAttemptsHardcoded == 30
MaxAttemptsCarbonNdvi == 30
StatusInternalError == 500
StatusOK == 200

Handlers == {"timeseries", "hardcoded", "carbonNdvi"}

maxAttempts(h) ==
    CASE h = "timeseries" -> MaxAttemptsTimeseries
      [] h = "hardcoded"  -> MaxAttemptsHardcoded
      [] h = "carbonNdvi" -> MaxAttemptsCarbonNdvi

(***************************************************************************)
(* Payloads of the remote service.                                         *)
(***************************************************************************)
NdviProps == {"null", "abc", "0.5"}   \* properties.NDVI: null, a non-number, a number
Timestamps == {1, 2}                  \* properties['system:time_start']
Feature == [t : Timestamps, ndvi : NdviProps]

RECURSIVE SeqsUpTo(_, _)
SeqsUpTo(S, n) ==
    IF n = 0 THEN {<<>>}
    ELSE LET shorter == SeqsUpTo(S, n - 1)
         IN  shorter \cup {Append(s, x) : s \in {q \in shorter : Len(q) = n - 1}, x \in S}

Payloads == SeqsUpTo(Feature, MaxFeatures)

NoData == [kind |-> "none"]
NoResponse == [kind |-> "none"]
NoEstimate == [kind |-> "none"]
NoRequest == [kind |-> "none"]

(***************************************************************************)
(* The parts of the system a specification leaves at rest.                 *)
(***************************************************************************)
PollIdle ==
    /\ handler = "none"
    /\ pc = "idle"
    /\ attempts = 0
    /\ tokenData = FALSE
    /\ geeData = NoData
    /\ pollData = NoData
    /\ response = NoResponse
    /\ tokenRequests = 0
    /\ computeRequests = 0
    /\ statusFetches = 0
    /\ outstanding = 0
    /\ waits = 0
    /\ notDoneFetches = 0
    /\ doneTrueFetches = 0
    /\ credential = "unread"

CalcIdle ==
    /\ calcHandler = "none"
    /\ calcPc = "idle"
    /\ calcRequest = NoRequest
    /\ calcEstimate = NoEstimate
    /\ calcResponse = NoResponse
    /\ calcStored = NoEstimate
    /\ calcDbInserts = 0
    /\ calcCredential = "unread"

EngIdle ==
    /\ engInput = NoRequest
    /\ engOutput = NoEstimate

TileIdle ==
    /\ tilePc = "idle"
    /\ tileRequest = NoRequest
    /\ tileCredential = "unread"
    /\ tileAuthToken = "none"
    /\ tileTokenRequests = 0
    /\ tileMapRequests = 0
    /\ tileResponse = NoResponse

AreaIdle ==
    /\ areaVariant = "none"
    /\ areaCoords = <<>>
    /\ areaResult = NoEstimate

ClientIdle ==
    /\ uiVariant = "none"
    /\ uiDrawing = FALSE
    /\ uiCoords = <<>>
    /\ uiLayers = {}
    /\ uiSelectedArea = NoRequest
    /\ uiCarbon = NoData
    /\ uiCalculating = FALSE
    /\ uiPending = {}
    /\ uiLastSent = NoRequest
    /\ uiRequests = 0
    /\ uiClicks = 0
    /\ uiTimer = FALSE

TmIdle ==
    /\ tmSelected = "none"
    /\ tmPending = {}
    /\ tmActiveTile = NoData
    /\ tmLayers = {}
    /\ tmSources = {}
    /\ tmCurrentLayerId = [name |-> "none", dataset |-> "none"]
    /\ tmLoading = FALSE
    /\ tmLoads = 0
    /\ tmSettled = <<>>

PxIdle ==
    /\ pxVariant = "none"
    /\ pxPc = "idle"
    /\ pxRequest = NoRequest
    /\ pxFetched = {}
    /\ pxResponse = NoResponse

\* What an awaited fetch + body read can settle to.
\*   net  : "ok" the fetch resolved, "throw" it rejected (network failure)
\*   body : "object" a JSON object, "null" the JSON value null, "invalid" not JSON
TokenReplies ==
    [net : {"ok"}, body : {"object"}, access_token : BOOLEAN]
    \cup [net : {"ok"}, body : {"null", "invalid"}, access_token : {FALSE}]
    \cup [net : {"throw"}, body : {"invalid"}, access_token : {FALSE}]

ComputeReplies ==
    [net : {"ok"}, ok : BOOLEAN, body : {"object"}, name : {FALSE}, features : Payloads]
    \cup [net : {"ok"}, ok : BOOLEAN, body : {"object"}, name : {TRUE}, features : {<<>>}]
    \cup [net : {"ok"}, ok : BOOLEAN, body : {"null", "invalid"}, name : {FALSE}, features : {<<>>}]
    \cup [net : {"throw"}, ok : {FALSE}, body : {"invalid"}, name : {FALSE}, features : {<<>>}]

\* done: the value of pollData.done. "truthy" is a value other than true that
\* JavaScript treats as true (1, "true", ...).
DoneValues == {"undefined", "false", "true", "truthy"}
UpstreamErrors == {"none", "quota", "bad_expression"}

\* The status body is an Operation: it carries a result only once it is
\* done and has no error.
PollReplies ==
    [net : {"ok"}, ok : BOOLEAN, body : {"object"}, done : {"true", "truthy"},
     error : {"none"}, features : Payloads]
    \cup [net : {"ok"}, ok : BOOLEAN, body : {"object"}, done : DoneValues,
          error : UpstreamErrors, features : {<<>>}]
    \cup [net : {"ok"}, ok : BOOLEAN, body : {"null", "invalid"}, done : {"undefined"},
          error : {"none"}, features : {<<>>}]
    \cup [net : {"throw"}, ok : {FALSE}, body : {"invalid"}, done : {"undefined"},
          error : {"none"}, features : {<<>>}]

(***************************************************************************)
(* The handlers' pure parts.                                               *)
(***************************************************************************)
\* Array.prototype.sort with (a, b) => a.date - b.date: stable, ascending.
RECURSIVE InsertByDate(_, _)
InsertByDate(sorted, f) ==
    IF sorted = <<>> THEN <<f>>
    ELSE IF Head(sorted).t <= f.t
         THEN <<Head(sorted)>> \o InsertByDate(Tail(sorted), f)
         ELSE <<f>> \o sorted

RECURSIVE SortByDate(_)
SortByDate(fs) ==
    IF fs = <<>> THEN <<>>
    ELSE InsertByDate(SortByDate(SubSeq(fs, 1, Len(fs) - 1)), fs[Len(fs)])

\* ndvi of one time-series point; "NaN" is dropped by the filter.
\*   timeseries: parseFloat(properties.NDVI || 0)
\*   carbonNdvi: properties.NDVI || 0, then !isNaN(ndvi)
\*   hardcoded : properties.NDVI, unfiltered
PointNdvi(h, prop) ==
    IF h = "hardcoded" THEN prop
    ELSE CASE prop = "null" -> "0"
           [] prop = "abc"  -> "NaN"
           [] OTHER         -> prop

RECURSIVE MapFilter(_, _)
MapFilter(h, fs) ==
    IF fs = <<>> THEN <<>>
    ELSE LET p == [t |-> Head(fs).t, ndvi |-> PointNdvi(h, Head(fs).ndvi)]
         IN  IF p.ndvi = "NaN" THEN MapFilter(h, Tail(fs))
             ELSE <<p>> \o MapFilter(h, Tail(fs))

BuildTimeSeries(h, features) == SortByDate(MapFilter(h, features))

\* The success Response. pollAttempts is reported by test-gee-hardcoded only,
\* and only after polling (0: not reported).
SuccessResponse(h, features, reported) ==
    [kind |-> "response", status |-> StatusOK, success |-> TRUE,
     error |-> "none", detail |-> "none",
     timeSeries |-> BuildTimeSeries(h, features),
     pollAttempts |-> IF h = "hardcoded" THEN reported ELSE 0]

\* The catch block: status 500, success false, error message.
FailureResponse(err, upstream) ==
    [kind |-> "response", status |-> StatusInternalError, success |-> FALSE,
     error |-> err, detail |-> upstream,
     timeSeries |-> <<>>, pollAttempts |-> 0]

\* A comparison with the string "true" instead of the boolean.
IsDone_ComparesString(h, done) == done = "truthy"

\* The loose test if (pollData.done) in every handler.
IsDone_LooseEverywhere(h, done) == done \in {"true", "truthy"}

\* if (pollData.done) / if (pollData.done === true)
IsDone(h, done) ==
    IF h = "hardcoded" THEN done = "true"
    ELSE done \in {"true", "truthy"}

\* An off-by-one loop test: attempts <= maxAttempts.
LoopContinues_OffByOne(h, a) == a <= maxAttempts(h)

\* attempt < 15 / attempts < maxAttempts
LoopContinues(h, a) == a < maxAttempts(h)

\* The done branch reading the features of the compute POST's body.
PollSuccess_FromGeeData(h, pd, gd, a) == SuccessResponse(h, gd.features, a + 1)

\* The Response built in the done branch from the status body.
PollSuccess(h, pd, gd, a) == SuccessResponse(h, pd.features, a + 1)

\* The direct branch reading geeData.result?.features as the done branch does.
DirectSuccess_FromResult(h, gd) == SuccessResponse(h, <<>>, 0)

\* The Response built from the compute POST's own body (no job handle).
DirectSuccess(h, gd) == SuccessResponse(h, gd.features, 0)

Credentials == {"absent", "unparseable", "noPrivateKey", "noClientEmail", "ok"}

(***************************************************************************)
(* One invocation of a polling handler, one action per await.              *)
(***************************************************************************)
InitPoll ==
    /\ handler \in Handlers
    /\ pc = "idle"
    /\ attempts = 0
    /\ tokenData = FALSE
    /\ geeData = NoData
    /\ pollData = NoData
    /\ response = NoResponse
    /\ tokenRequests = 0
    /\ computeRequests = 0
    /\ statusFetches = 0
    /\ outstanding = 0
    /\ waits = 0
    /\ notDoneFetches = 0
    /\ doneTrueFetches = 0
    /\ credential = "unread"
    /\ CalcIdle
    /\ EngIdle
    /\ TileIdle
    /\ AreaIdle
    /\ ClientIdle
    /\ TmIdle
    /\ PxIdle

\* return new Response(...) from the try block or from the catch block.
Respond(r) ==
    /\ response' = r
    /\ pc' = "responded"

\* The request arrives: body read, credential parsed, JWT signed, and the
\* token request sent. bodyOk: req.json() resolves; signOk: importKey and
\* sign resolve.
Receive(bodyOk, cred, signOk) ==
    /\ pc = "idle"
    /\ credential' = cred
    /\ IF handler # "hardcoded" /\ ~bodyOk
         THEN /\ Respond(FailureResponse("bad_request_body", "none"))
              /\ UNCHANGED tokenRequests
       ELSE IF cred = "absent"
         THEN /\ Respond(FailureResponse("not_configured", "none"))
              /\ UNCHANGED tokenRequests
       ELSE IF cred = "unparseable"
         THEN /\ Respond(FailureResponse("bad_credential_json", "none"))
              /\ UNCHANGED tokenRequests
       ELSE IF cred = "noPrivateKey" \/ ~signOk
         THEN /\ Respond(FailureResponse("signing_failed", "none"))
              /\ UNCHANGED tokenRequests
       ELSE /\ tokenRequests' = tokenRequests + 1
            /\ pc' = "token"
            /\ UNCHANGED response
    /\ UNCHANGED <<handler, attempts, tokenData, geeData, pollData,
                   computeRequests, statusFetches, outstanding, waits,
                   notDoneFetches, doneTrueFetches>>
    /\ UNCHANGED nonPollVars

\* The token request settles; with an access token the compute POST is sent.
TokenSettled(reply) ==
    /\ pc = "token"
    /\ IF reply.net = "throw"
         THEN /\ Respond(FailureResponse("network", "none"))
              /\ UNCHANGED <<tokenData, computeRequests>>
       ELSE IF reply.body = "invalid"
         THEN /\ Respond(FailureResponse("bad_json", "none"))
              /\ UNCHANGED <<tokenData, computeRequests>>
       ELSE IF reply.body = "null"
         THEN /\ Respond(FailureResponse("type_error", "none"))
              /\ UNCHANGED <<tokenData, computeRequests>>
       ELSE IF ~reply.access_token
         THEN /\ Respond(FailureResponse("token_failed", "none"))
              /\ UNCHANGED <<tokenData, computeRequests>>
       ELSE /\ tokenData' = TRUE
            /\ computeRequests' = computeRequests + 1
            /\ pc' = "compute"
            /\ UNCHANGED response
    /\ UNCHANGED <<handler, attempts, geeData, pollData, tokenRequests,
                   statusFetches, outstanding, waits, notDoneFetches,
                   doneTrueFetches, credential>>
    /\ UNCHANGED nonPollVars

\* What reading the compute response throws, if anything.
\* gee-ndvi-timeseries and test-gee-hardcoded test geeResponse.ok before
\* reading the body; the NDVI variant of calculate-carbon-gee reads the body
\* first.
ComputeError(h, reply) ==
    IF reply.net = "throw" THEN "network"
    ELSE IF h = "carbonNdvi"
      THEN IF reply.body = "invalid" THEN "bad_json"
           ELSE IF ~reply.ok THEN "gee_api_error"
           ELSE IF reply.body = "null" THEN "type_error"
           ELSE "none"
    ELSE IF ~reply.ok THEN "gee_api_error"
         ELSE IF reply.body = "invalid" THEN "bad_json"
         ELSE IF reply.body = "null" THEN "type_error"
         ELSE "none"

\* The compute POST settles: failure, a job handle (polling starts with the
\* first wait), or a terminal payload.
ComputeSettled(reply) ==
    /\ pc = "compute"
    /\ IF ComputeError(handler, reply) # "none"
         THEN /\ Respond(FailureResponse(ComputeError(handler, reply), "none"))
              /\ UNCHANGED <<geeData, attempts>>
       ELSE IF reply.name
         THEN /\ geeData' = reply
              /\ attempts' = 0
              /\ IF LoopContinues(handler, 0)
                   THEN pc' = "wait" /\ UNCHANGED response
                   ELSE Respond(FailureResponse("timeout", "none"))
       ELSE /\ geeData' = reply
            /\ Respond(DirectSuccess(handler, reply))
            /\ UNCHANGED attempts
    /\ UNCHANGED <<handler, tokenData, pollData, tokenRequests, computeRequests,
                   statusFetches, outstanding, waits, notDoneFetches,
                   doneTrueFetches, credential>>
    /\ UNCHANGED nonPollVars

\* The status fetch sent without awaiting the timer or the previous fetch.
WaitElapsed_NoAwait ==
    /\ pc \in {"wait", "poll"}
    /\ waits' = IF pc = "wait" THEN waits + 1 ELSE waits
    /\ statusFetches' = statusFetches + 1
    /\ outstanding' = outstanding + 1
    /\ pc' = "poll"
    /\ UNCHANGED <<handler, attempts, tokenData, geeData, pollData, response,
                   tokenRequests, computeRequests, notDoneFetches,
                   doneTrueFetches, credential>>
    /\ UNCHANGED nonPollVars

\* await new Promise(resolve => setTimeout(resolve, 2000)) resolves and
\* the status fetch is sent.
WaitElapsed ==
    /\ pc = "wait"
    /\ waits' = waits + 1
    /\ statusFetches' = statusFetches + 1
    /\ outstanding' = outstanding + 1
    /\ pc' = "poll"
    /\ UNCHANGED <<handler, attempts, tokenData, geeData, pollData, response,
                   tokenRequests, computeRequests, notDoneFetches,
                   doneTrueFetches, credential>>
    /\ UNCHANGED nonPollVars

\* The status fetch settles and the rest of the loop body runs.
PollSettled(reply) ==
    /\ pc = "poll"
    /\ outstanding' = outstanding - 1
    /\ doneTrueFetches' = doneTrueFetches +
            (IF reply.body = "object" /\ reply.done = "true" THEN 1 ELSE 0)
    /\ notDoneFetches' = notDoneFetches +
            (IF reply.body = "object" /\ reply.done = "true" THEN 0 ELSE 1)
    /\ IF reply.net = "throw"
         THEN /\ Respond(FailureResponse("network", "none"))
              /\ UNCHANGED <<attempts, pollData>>
       ELSE IF reply.body = "invalid"
         THEN /\ Respond(FailureResponse("bad_json", "none"))
              /\ UNCHANGED <<attempts, pollData>>
       ELSE IF reply.body = "null"
         THEN /\ Respond(FailureResponse("type_error", "none"))
              /\ UNCHANGED <<attempts, pollData>>
       ELSE IF IsDone(handler, reply.done)
         THEN /\ pollData' = reply
              /\ UNCHANGED attempts
              /\ IF reply.error # "none"
                   THEN Respond(FailureResponse("operation_failed", reply.error))
                   ELSE Respond(PollSuccess(handler, reply, geeData, attempts))
       ELSE /\ attempts' = attempts + 1
            /\ pollData' = NoData      \* const pollData is scoped to the iteration
            /\ IF LoopContinues(handler, attempts + 1)
                 THEN pc' = "wait" /\ UNCHANGED response
                 ELSE Respond(FailureResponse("timeout", "none"))
    /\ UNCHANGED <<handler, tokenData, geeData, tokenRequests, computeRequests,
                   statusFetches, waits, credential>>
    /\ UNCHANGED nonPollVars

NextPoll ==
    \/ \E bodyOk \in BOOLEAN, cred \in Credentials, signOk \in BOOLEAN :
            Receive(bodyOk, cred, signOk)
    \/ \E reply \in TokenReplies : TokenSettled(reply)
    \/ \E reply \in ComputeReplies : ComputeSettled(reply)
    \/ WaitElapsed
    \/ \E reply \in PollReplies : PollSettled(reply)

SpecPoll == InitPoll /\ [][NextPoll]_vars

\* Every pending await settles: the timer fires, and each fetch resolves or
\* rejects.
SpecPollFair == SpecPoll /\ WF_vars(NextPoll)

(***************************************************************************)
(* Properties of the polling handlers.                                     *)
(***************************************************************************)
Responded == pc = "responded"
Polled == geeData # NoData /\ geeData.name
TimedOut == Responded /\ ~response.success /\ response.error = "timeout"

\* C1: when the job reads not-done on the first N-1 status fetches and
\* done = true without error on fetch N (1 <= N <= maxAttempts, N =
\* maxAttempts included), the handler returns a success response built from
\* the body of fetch N after exactly N status fetches; it never gives up
\* before maxAttempts fetches.
C1_DoneOnFetchN ==
    /\ (Responded /\ Polled /\ pollData # NoData
            /\ pollData.done = "true" /\ pollData.error = "none")
        => /\ response.success
           /\ response.status = StatusOK
           /\ response.timeSeries = BuildTimeSeries(handler, pollData.features)
           /\ statusFetches = notDoneFetches + 1
           /\ statusFetches <= maxAttempts(handler)
           /\ handler = "hardcoded" => response.pollAttempts = statusFetches
    /\ TimedOut => notDoneFetches = maxAttempts(handler)

C1_Witness ==
    /\ Responded /\ Polled /\ pollData # NoData
    /\ handler = "timeseries"
    /\ pollData.done = "true" /\ pollData.error = "none"
    /\ Len(pollData.features) = MaxFeatures
    /\ response.success
    /\ statusFetches = MaxAttemptsTimeseries

\* C2: a job that never reports done gets exactly maxAttempts status
\* fetches and then a failure response carrying a timeout error; the number
\* of status fetches never exceeds maxAttempts and every invocation ends in
\* a success or a failure response.
C2_Bounded ==
    /\ statusFetches <= maxAttempts(handler)
    /\ attempts <= maxAttempts(handler)
    /\ attempts = maxAttempts(handler) => TimedOut
    /\ TimedOut => /\ statusFetches = maxAttempts(handler)
                   /\ attempts = maxAttempts(handler)
                   /\ response.status = StatusInternalError
                   /\ outstanding = 0
    /\ Responded => response.kind = "response"

C3_DoneState ==
    /\ doneTrueFetches > 0 => Responded /\ outstanding = 0 /\ doneTrueFetches = 1
    /\ (Responded /\ pollData # NoData /\ pollData.done = "true"
            /\ pollData.error # "none")
        => /\ ~response.success
           /\ response.status = StatusInternalError
           /\ response.error = "operation_failed"
           /\ response.detail = pollData.error

C3_DoneIsTerminal ==
    []C3_DoneState /\ [][doneTrueFetches > 0 => statusFetches' = statusFetches]_vars

C3_Witness ==
    /\ Responded /\ pollData # NoData
    /\ pollData.done = "true" /\ pollData.error = "quota"
    /\ statusFetches = 1
    /\ response.error = "operation_failed"

\* C4: a compute POST that succeeds without a job handle is answered
\* directly: the success response is built from that body, with no status
\* fetch and no wait.
C4_DirectResponse ==
    (Responded /\ geeData # NoData /\ ~geeData.name)
    => /\ response.success
       /\ response.status = StatusOK
       /\ response.timeSeries = BuildTimeSeries(handler, geeData.features)
       /\ statusFetches = 0
       /\ waits = 0
       /\ pollData = NoData

C4_Witness ==
    /\ Responded /\ geeData # NoData /\ ~geeData.name
    /\ Len(geeData.features) = MaxFeatures
    /\ response.success

\* C5: status checks are strictly sequential: at most one status fetch is
\* outstanding, and every status fetch (the first included) is sent only
\* after the previous one settled and a wait elapsed.
C5_SequentialPolling ==
    /\ outstanding \in {0, 1}
    /\ outstanding = 1 <=> pc = "poll"
    /\ statusFetches = notDoneFetches + doneTrueFetches + outstanding
    /\ statusFetches = waits

C5_Witness ==
    /\ pc = "poll"
    /\ outstanding = 1
    /\ statusFetches = 3
    /\ waits = 3

(***************************************************************************)
(* The carbon estimation engines.                                          *)
(*                                                                         *)
(* Numbers are exact fixed-point integers:                                 *)
(*   ndviMean          in steps of 0.04   (ndviMean = 15 is 0.60)          *)
(*   ndviStd           in steps of 0.025  (ndviStd = 3 is 0.075)           *)
(*   percentage        in steps of 5 %    (percentage = 20 is 100 %)       *)
(*   areaHectares      in hectares                                         *)
(*   every output      in hundredths      (the two decimals kept)          *)
(* NaN stands for the IEEE not-a-number value.                             *)
(***************************************************************************)
NaN == -999999999

Abs(x) == IF x < 0 THEN -x ELSE x
Sign(x) == IF x < 0 THEN -1 ELSE 1
Max(a, b) == IF a >= b THEN a ELSE b
Min(a, b) == IF a <= b THEN a ELSE b

\* Math.round(n / d) for an even d > 0: floor(n / d + 1/2).
MathRound(n, d) == (n + d \div 2) \div d

\* parseFloat((n / d).toFixed(0)) for an even d > 0: nearest, ties away from zero.
ToFixed(n, d) == Sign(n) * ((Abs(n) + d \div 2) \div d)

\* The accumulation of the terms, in iteration order.
RECURSIVE SumSeq(_)
SumSeq(terms) ==
    IF terms = <<>> THEN 0 ELSE Head(terms) + SumSeq(Tail(terms))

\* ---- calculateCarbonFromRealData (calculate-carbon-gee, live variant) ----
RealDataTypes == {"Forest", "Agriculture", "Grassland", "Urban", "Water", "Bare_soil"}

\* biomass and soil per hectare; root_ratio in hundredths.
carbonCoefficients(coverType) ==
    CASE coverType = "Forest"      -> [biomass |-> 120, soil |-> 80, root_ratio |-> 26]
      [] coverType = "Agriculture" -> [biomass |-> 15,  soil |-> 45, root_ratio |-> 15]
      [] coverType = "Grassland"   -> [biomass |-> 8,   soil |-> 60, root_ratio |-> 40]
      [] coverType = "Urban"       -> [biomass |-> 5,   soil |-> 20, root_ratio |-> 10]
      [] coverType = "Water"       -> [biomass |-> 0,   soil |-> 0,  root_ratio |-> 0]
      [] coverType = "Bare_soil"   -> [biomass |-> 1,   soil |-> 15, root_ratio |-> 5]

\* ndviMean * 2.5 without the clamp, in tenths.
ndviBiomassMultiplier_NoClamp(ndviMean) == ndviMean

\* Math.max(0.2, Math.min(2.0, ndviMean * 2.5)), in tenths.
ndviBiomassMultiplier(ndviMean) == Max(2, Min(20, ndviMean))

\* 1.0 / 0.9 / 0.8, in tenths.
qualityMultiplier(dataQuality) ==
    IF dataQuality = "high" THEN 10 ELSE IF dataQuality = "medium" THEN 9 ELSE 8

\* 1 + (ndviStd - 0.075) * 2, in twentieths.
variabilityFactorRealData(ndviStd) == 20 + (ndviStd - 3)

\* (aboveground + belowground + soil) * 3.67 in hundredths, from
\* aboveground = ag / 40000, belowground = bg / 4000000, soil = so / 200.
TotalCO2eRealData(ag, bg, so) ==
    LET frac  == (ag % 40000) * 100 + (bg % 4000000) + (so % 200) * 20000
        whole == (ag \div 40000) + (bg \div 4000000) + (so \div 200)
                    + (frac \div 4000000)
    IN  367 * whole + (367 * (frac % 4000000) + 2000000) \div 4000000

calculateCarbonFromRealData(ndviMean, ndviStd, landCover, areaHectares, dataQuality) ==
    LET m  == IF ndviMean = NaN THEN 1 ELSE ndviBiomassMultiplier(ndviMean)
        q  == qualityMultiplier(dataQuality)
        a  == Abs(areaHectares)
        sg == Sign(areaHectares)
        vf == variabilityFactorRealData(ndviStd)
        known == SelectSeq(landCover, LAMBDA e : e.type \in RealDataTypes)
        \* totalAbovegroundBiomass * 2000, before the variability factor
        agSum == SumSeq([i \in 1..Len(known) |->
                    a * known[i].percentage * carbonCoefficients(known[i].type).biomass
                      * m * q])
        \* totalBelowgroundBiomass * 200000, before the variability factor
        bgSum == SumSeq([i \in 1..Len(known) |->
                    a * known[i].percentage * carbonCoefficients(known[i].type).biomass
                      * m * q * carbonCoefficients(known[i].type).root_ratio])
        \* totalSoilCarbon * 200
        soSum == SumSeq([i \in 1..Len(known) |->
                    a * known[i].percentage * carbonCoefficients(known[i].type).soil * q])
        nan == (ndviMean = NaN \/ areaHectares = NaN) /\ known # <<>>
        nanSoil == areaHectares = NaN /\ known # <<>>
    IN  [error |-> "none",
         total_co2e |-> IF nan THEN NaN
                        ELSE sg * TotalCO2eRealData(agSum * vf, bgSum * vf, soSum),
         above_ground_biomass |-> IF nan THEN NaN ELSE sg * ToFixed(agSum * vf, 400),
         below_ground_biomass |-> IF nan THEN NaN ELSE sg * ToFixed(bgSum * vf, 40000),
         soil_organic_carbon |-> IF nanSoil THEN NaN ELSE sg * ToFixed(soSum, 2)]

\* ---- calculateCarbonFromNDVIAndLandCover (calculate-carbon-gee) ----
NdviLandCoverTypes == {"Dense Forest", "Grassland", "Agricultural", "Sparse Vegetation"}

\* carbonCoefficients[coverType], in tenths (t CO2e per hectare).
carbonCoefficientNdvi(coverType, ndviMean) ==
    CASE coverType = "Dense Forest"      -> 2000 + (4 * ndviMean - 60) * 30
      [] coverType = "Grassland"         -> 800 + (4 * ndviMean - 40) * 10
      [] coverType = "Agricultural"      -> 500 + (4 * ndviMean - 30) * 8
      [] coverType = "Sparse Vegetation" -> 200 + Max(0, (4 * ndviMean - 20) * 6)

\* carbonCoefficients[coverType] || 50, in tenths.
coefficient(coverType, ndviMean) ==
    IF coverType \notin NdviLandCoverTypes \/ ndviMean = NaN THEN 500
    ELSE IF carbonCoefficientNdvi(coverType, ndviMean) = 0 THEN 500
    ELSE carbonCoefficientNdvi(coverType, ndviMean)

\* Math.max(0.7, 1 - (ndviStd / 0.3)), in sixtieths.
variabilityFactorNdvi(ndviStd) == Max(42, 60 - 5 * ndviStd)

\* Object.entries(landCover).reduce((prev, current) =>
\*     current[1] > prev[1] ? current : prev)[0]
RECURSIVE DominantFrom(_, _)
DominantFrom(prev, entries) ==
    IF entries = <<>> THEN prev.type
    ELSE DominantFrom(IF Head(entries).percentage > prev.percentage
                      THEN Head(entries) ELSE prev, Tail(entries))

\* The reduce with >= in place of >: the last of the largest entries.
dominantCover_LastOnTie(landCover) ==
    landCover[CHOOSE i \in 1..Len(landCover) :
                 /\ \A j \in 1..Len(landCover) :
                        landCover[j].percentage <= landCover[i].percentage
                 /\ \A j \in (i + 1)..Len(landCover) :
                        landCover[j].percentage < landCover[i].percentage].type

dominantCover(landCover) == DominantFrom(Head(landCover), Tail(landCover))

\* soilRatio, aboveGroundRatio, belowGroundRatio, in hundredths.
poolRatios(cover) ==
    CASE cover = "Dense Forest" -> [soil |-> 42, aboveGround |-> 45, belowGround |-> 13]
      [] cover = "Grassland"    -> [soil |-> 65, aboveGround |-> 25, belowGround |-> 10]
      [] cover = "Agricultural" -> [soil |-> 70, aboveGround |-> 20, belowGround |-> 10]
      [] OTHER                  -> [soil |-> 50, aboveGround |-> 35, belowGround |-> 15]

calculateCarbonFromNDVIAndLandCover(areaHectares, ndviMean, ndviStd, landCover) ==
    IF landCover = <<>>
    THEN \* reduce of an empty array with no initial value
         [error |-> "TypeError", total_co2e |-> NaN, above_ground_biomass |-> NaN,
          below_ground_biomass |-> NaN, soil_organic_carbon |-> NaN]
    ELSE IF areaHectares = NaN
    THEN [error |-> "none", total_co2e |-> NaN, above_ground_biomass |-> NaN,
          below_ground_biomass |-> NaN, soil_organic_carbon |-> NaN]
    ELSE
    LET \* totalCarbon * 12000
        carbon == SumSeq([i \in 1..Len(landCover) |->
                      coefficient(landCover[i].type, ndviMean) * landCover[i].percentage
                        * areaHectares])
                  * variabilityFactorNdvi(ndviStd)
        ratios == poolRatios(dominantCover(landCover))
    IN  [error |-> "none",
         total_co2e |-> MathRound(carbon, 120),
         above_ground_biomass |-> MathRound(carbon * ratios.aboveGround, 12000),
         below_ground_biomass |-> MathRound(carbon * ratios.belowGround, 12000),
         soil_organic_carbon |-> MathRound(carbon * ratios.soil, 12000)]

(***************************************************************************)
(* The calculate-carbon-gee handlers.                                      *)
(*                                                                         *)
(* The function exists in three request/response variants:                 *)
(*   "simulated"  computes and returns the estimate, stores nothing        *)
(*   "stored"     needs client_email, computes, inserts, returns the row   *)
(*   "live"       checks its parameters, computes, inserts, returns        *)
(* A coordinate is <<lon, lat>> in whole degrees; cloud coverage is in     *)
(* whole percent; Math.random() and the clock are choices of the           *)
(* environment.                                                            *)
(***************************************************************************)
MaxArea == 2          \* largest areaHectares of a request

StatusBadRequest == 400

CalcHandlers == {"simulated", "stored", "live"}

\* geometry.coordinates[0] of the requests.
EmptyRing    == <<>>
PointRing    == << <<10, 0>> >>
SegmentRing  == << <<10, -1>>, <<12, 1>> >>
TropicalRing == << <<10, 0>>, <<12, -1>>, <<11, 1>>, <<10, 0>> >>
AridRing     == << <<10, 30>>, <<12, 29>>, <<11, 31>>, <<10, 30>> >>
DefaultRing  == << <<50, 30>>, <<52, 29>>, <<51, 31>>, <<50, 30>> >>
ForestedRing == << <<10, 45>>, <<12, 44>>, <<11, 46>>, <<10, 45>> >>
SubtropicalRing == << <<10, 25>>, <<12, 24>>, <<11, 26>>, <<10, 25>> >>

Rings == {EmptyRing, PointRing, SegmentRing, TropicalRing, AridRing,
          DefaultRing, ForestedRing, SubtropicalRing}

Geometries ==
    {[kind |-> "absent", ring |-> <<>>], [kind |-> "noCoordinates", ring |-> <<>>]}
      \cup [kind : {"polygon"}, ring : Rings]

Areas == {-1} \cup 0..MaxArea

\* The body of the POST: areaHectares is NaN where the body has none.
CalcRequests ==
    [bodyOk : {TRUE}, geometry : Geometries, hasArea : {TRUE}, areaHectares : Areas]
      \cup [bodyOk : {TRUE}, geometry : Geometries, hasArea : {FALSE},
            areaHectares : {NaN}]
      \cup {[bodyOk |-> FALSE, geometry |-> [kind |-> "absent", ring |-> <<>>],
             hasArea |-> FALSE, areaHectares |-> NaN]}

CalcCredentials == {"absent", "unparseable", "noClientEmail", "ok"}

\* coords.reduce((sum, coord) => sum + coord[1], 0) and the same for coord[0].
SumLat(coords) == SumSeq([i \in 1..Len(coords) |-> coords[i][2]])
SumLon(coords) == SumSeq([i \in 1..Len(coords) |-> coords[i][1]])

CloudSamples == {0, 10, 11, 19, 20, 35, 49, 50}
Months == 1..12

\* ---- the simulated signal of calculateCarbonWithGEE ----
\* Math.max(0.3, Math.min(0.9, baseNdvi + (Math.random() - 0.5) * 0.2)) with
\* baseNdvi = 0.7 - Math.abs(avgLat) / 90 * 0.2: the values on the 0.04 grid.
mockNdviMeanSimulated(coords) ==
    IF Len(coords) = 0 THEN {NaN}
    ELSE {k \in 8..22 :
            /\ 270 * Len(coords) - Abs(SumLat(coords)) <= 18 * Len(coords) * k
            /\ 18 * Len(coords) * k < 360 * Len(coords) - Abs(SumLat(coords))}

\* 0.12 + Math.random() * 0.08, on the 0.025 grid.
mockNdviStdSimulated == {5, 6, 7}

\* Math.random() * 12
mockCloudCoverageSimulated == {c \in CloudSamples : c < 12}

\* 0.65 + (Math.random() - 0.5) * 0.3, on the 0.04 grid.
mockNdviMeanStored == 13..19

\* 0.15 + Math.random() * 0.1, on the 0.025 grid.
mockNdviStdStored == 6..9

\* Math.random() * 15
mockCloudCoverageStored == {c \in CloudSamples : c < 15}

\* landCoverTypes after normalisation to 100 %, in steps of 5 %.
landCoverTypes ==
    { << [type |-> "Dense Forest", percentage |-> 8],
         [type |-> "Grassland", percentage |-> 6],
         [type |-> "Agricultural", percentage |-> 4],
         [type |-> "Sparse Vegetation", percentage |-> 2] >>,
      << [type |-> "Dense Forest", percentage |-> 4],
         [type |-> "Grassland", percentage |-> 12],
         [type |-> "Agricultural", percentage |-> 2],
         [type |-> "Sparse Vegetation", percentage |-> 2] >>,
      << [type |-> "Dense Forest", percentage |-> 4],
         [type |-> "Grassland", percentage |-> 4],
         [type |-> "Agricultural", percentage |-> 10],
         [type |-> "Sparse Vegetation", percentage |-> 2] >>,
      << [type |-> "Dense Forest", percentage |-> 4],
         [type |-> "Grassland", percentage |-> 4],
         [type |-> "Agricultural", percentage |-> 4],
         [type |-> "Sparse Vegetation", percentage |-> 8] >> }

\* dataQuality without the second test (cloud > 20, ndviStd > 0.3).
dataQualityGEE_NoLow(cloud, ndviStd) ==
    IF cloud > 10 \/ ndviStd > 8 THEN "Medium" ELSE "High"

\* dataQuality of calculateCarbonWithGEE; ndviStd > 0.2 is ndviStd > 8 on the grid.
dataQualityGEE(cloud, ndviStd) ==
    IF cloud > 20 \/ ndviStd > 12 THEN "Low"
    ELSE IF cloud > 10 \/ ndviStd > 8 THEN "Medium"
    ELSE "High"

\* uncertaintyFactor, in hundredths.
uncertaintyFactor(dataQuality) ==
    IF dataQuality = "High" THEN 10 ELSE IF dataQuality = "Medium" THEN 20 ELSE 35

\* [totalCO2e * (1 - uncertaintyFactor), totalCO2e * (1 + uncertaintyFactor)],
\* in ten-thousandths.
uncertaintyRangeGEE(totalCO2e, dataQuality) ==
    IF totalCO2e = NaN THEN [kind |-> "pair", low |-> NaN, high |-> NaN]
    ELSE [kind |-> "pair",
          low  |-> totalCO2e * (100 - uncertaintyFactor(dataQuality)),
          high |-> totalCO2e * (100 + uncertaintyFactor(dataQuality))]

\* What calculateCarbonWithGEE returns once the signal is drawn.
calculateCarbonWithGEE(areaHectares, ndviMean, ndviStd, cloud, landCover) ==
    LET carbonData == calculateCarbonFromNDVIAndLandCover(areaHectares, ndviMean,
                                                          ndviStd, landCover)
        dataQuality == dataQualityGEE(cloud, ndviStd)
    IN  [kind |-> "estimate",
         total_co2e |-> carbonData.total_co2e,
         above_ground_biomass |-> carbonData.above_ground_biomass,
         below_ground_biomass |-> carbonData.below_ground_biomass,
         soil_organic_carbon |-> carbonData.soil_organic_carbon,
         calculation_method |-> "gee-ndvi-landcover",
         data_quality |-> dataQuality,
         uncertainty_range |-> uncertaintyRangeGEE(carbonData.total_co2e, dataQuality),
         ndvi_mean |-> ndviMean,
         ndvi_std |-> ndviStd,
         cloud_coverage |-> cloud,
         land_cover |-> landCover]

\* ---- the signal of calculateCarbonWithLiveGEE ----
\* Math.sin((currentDate.getMonth() + 1) * Math.PI / 6), in ten-thousandths.
seasonFactor(month) ==
    CASE month \in {1, 5}  -> 5000
      [] month \in {2, 4}  -> 8660
      [] month = 3         -> 10000
      [] month \in {6, 12} -> 0
      [] month \in {7, 11} -> -5000
      [] month \in {8, 10} -> -8660
      [] month = 9         -> -10000

\* Math.sin(centerLat * Math.PI / 180) * 0.3, in ten-thousandths, for the
\* centroids of Rings (latitude 0, 25, 30 or 45 degrees).
locationFactor(coords) ==
    CASE SumLat(coords) = 0                -> 0
      [] SumLat(coords) = 25 * Len(coords) -> 1268
      [] SumLat(coords) = 30 * Len(coords) -> 1500
      [] SumLat(coords) = 45 * Len(coords) -> 2121

\* Math.max(0.1, Math.min(0.95, baseNDVI + (Math.random() - 0.5) * 0.1)) with
\* baseNDVI = 0.3 + locationFactor + seasonFactor * 0.2: the values on the
\* 0.04 grid.
ndviMeanLive(coords, month) ==
    IF Len(coords) = 0 THEN {NaN}
    ELSE LET baseNDVI == 3000 + locationFactor(coords) + seasonFactor(month) \div 5
         IN  {k \in 3..23 : /\ baseNDVI - 500 <= 400 * k
                            /\ 400 * k < baseNDVI + 500}

\* 0.05 + Math.random() * 0.1, on the 0.025 grid.
ndviStdLive == 2..5

\* Math.max(0, Math.min(100, 10 + Math.abs(seasonFactor) * 20 + Math.random() * 30))
cloudCoverageLive(month) ==
    {c \in CloudSamples : /\ 5000 + Abs(seasonFactor(month)) <= 500 * c
                          /\ 500 * c < 20000 + Abs(seasonFactor(month))}

\* dataQuality and uncertaintyRange of calculateCarbonWithLiveGEE.
dataQualityLive(cloud) ==
    IF cloud < 20 THEN "high" ELSE IF cloud < 50 THEN "medium" ELSE "low"

\* uncertainty_range is a single number here: a percentage.
uncertaintyRangeLive(cloud) ==
    [kind |-> "number",
     value |-> IF cloud < 20 THEN 15 ELSE IF cloud < 50 THEN 25 ELSE 40]

\* The latitude bands of generateRealisticLandCover, on the coordinate sums
\* (for an empty ring lat and lon are NaN and every comparison is false).
isForested(coords) ==
    /\ Abs(SumLat(coords)) > 30 * Len(coords)
    /\ Abs(SumLat(coords)) < 60 * Len(coords)

isTropical(coords) == Abs(SumLat(coords)) < 30 * Len(coords)

isArid(coords) ==
    /\ Abs(SumLat(coords)) > 20 * Len(coords)
    /\ Abs(SumLat(coords)) < 40 * Len(coords)
    /\ \/ Abs(SumLon(coords)) > 100 * Len(coords)
       \/ Abs(SumLon(coords)) < 20 * Len(coords)

LandCover6(t1, p1, t2, p2, t3, p3, t4, p4, t5, p5, t6, p6) ==
    << [type |-> t1, percentage |-> p1], [type |-> t2, percentage |-> p2],
       [type |-> t3, percentage |-> p3], [type |-> t4, percentage |-> p4],
       [type |-> t5, percentage |-> p5], [type |-> t6, percentage |-> p6] >>

ForestedMixes ==
    { LandCover6("Forest", 9, "Grassland", 5, "Agriculture", 3, "Urban", 1,
                 "Water", 1, "Bare_soil", 1),
      LandCover6("Forest", 10, "Grassland", 4, "Agriculture", 3, "Urban", 1,
                 "Water", 1, "Bare_soil", 1) }

TropicalMixes ==
    { LandCover6("Forest", 10, "Agriculture", 4, "Grassland", 2, "Urban", 1,
                 "Water", 2, "Bare_soil", 1),
      LandCover6("Forest", 11, "Agriculture", 4, "Grassland", 2, "Urban", 1,
                 "Water", 1, "Bare_soil", 1) }

AridMixes ==
    { LandCover6("Bare_soil", 10, "Grassland", 5, "Agriculture", 2, "Forest", 1,
                 "Urban", 1, "Water", 1),
      LandCover6("Bare_soil", 9, "Grassland", 6, "Agriculture", 2, "Forest", 1,
                 "Urban", 1, "Water", 1) }

DefaultMixes ==
    { LandCover6("Agriculture", 6, "Grassland", 5, "Forest", 4, "Urban", 2,
                 "Water", 2, "Bare_soil", 1),
      LandCover6("Agriculture", 7, "Grassland", 5, "Forest", 3, "Urban", 2,
                 "Water", 1, "Bare_soil", 2) }

\* The normalised mixes generateRealisticLandCover can return, in steps of 5 %.
generateRealisticLandCover(coords) ==
    IF isForested(coords) THEN ForestedMixes
    ELSE IF isTropical(coords) THEN TropicalMixes
    ELSE IF isArid(coords) THEN AridMixes
    ELSE DefaultMixes

\* What calculateCarbonWithLiveGEE returns once the signal is drawn.
calculateCarbonWithLiveGEE(areaHectares, ndviMean, ndviStd, cloud, landCover) ==
    LET carbonResults == calculateCarbonFromRealData(ndviMean, ndviStd, landCover,
                                                     areaHectares, dataQualityLive(cloud))
    IN  [kind |-> "estimate",
         total_co2e |-> carbonResults.total_co2e,
         above_ground_biomass |-> carbonResults.above_ground_biomass,
         below_ground_biomass |-> carbonResults.below_ground_biomass,
         soil_organic_carbon |-> carbonResults.soil_organic_carbon,
         calculation_method |-> "Live GEE Sentinel-2 + Scientific Models",
         data_quality |-> dataQualityLive(cloud),
         uncertainty_range |-> uncertaintyRangeLive(cloud),
         ndvi_mean |-> ndviMean,
         ndvi_std |-> ndviStd,
         cloud_coverage |-> cloud,
         land_cover |-> landCover]

\* ---- responses ----
\* { success: true, calculation, ... } with status 200 (the default status)
CalcSuccess(calculation) ==
    [status |-> StatusOK, success |-> "true", error |-> "none",
     calculation |-> calculation]

\* catch of the simulated and stored variants: { error: error.message }, 400
CalcFailureGEE(message) ==
    [status |-> StatusBadRequest, success |-> "absent", error |-> message,
     calculation |-> NoEstimate]

\* catch of the live variant: { success: false, error, details }, 500
CalcFailureLive(message) ==
    [status |-> StatusInternalError, success |-> "false", error |-> message,
     calculation |-> NoEstimate]

\* JavaScript truthiness of areaHectares.
Truthy(request) == request.hasArea /\ request.areaHectares # 0

InitCalc ==
    /\ calcHandler \in CalcHandlers
    /\ calcPc = "idle"
    /\ calcRequest = NoRequest
    /\ calcEstimate = NoEstimate
    /\ calcResponse = NoResponse
    /\ calcStored = NoEstimate
    /\ calcDbInserts = 0
    /\ calcCredential = "unread"
    /\ PollIdle
    /\ EngIdle
    /\ TileIdle
    /\ AreaIdle
    /\ ClientIdle
    /\ TmIdle
    /\ PxIdle

CalcRespond(r) ==
    /\ calcPc' = "responded"
    /\ calcResponse' = r

\* Deno.serve handler of the simulated variant, from the request to the Response.
ReceiveSimulated(request, cred) ==
    /\ calcHandler = "simulated"
    /\ calcPc = "idle"
    /\ calcRequest' = request
    /\ calcCredential' = IF request.bodyOk THEN cred ELSE calcCredential
    /\ IF ~request.bodyOk
       THEN /\ CalcRespond(CalcFailureGEE("Unexpected end of JSON input"))
            /\ UNCHANGED calcEstimate
       ELSE IF request.geometry.kind # "polygon"
       THEN \* geometry.coordinates[0] of undefined
            /\ CalcRespond(CalcFailureGEE("GEE processing failed: TypeError"))
            /\ UNCHANGED calcEstimate
       ELSE \E ndviMean \in mockNdviMeanSimulated(request.geometry.ring),
               ndviStd \in mockNdviStdSimulated,
               cloud \in mockCloudCoverageSimulated,
               landCover \in landCoverTypes :
              /\ calcEstimate' = calculateCarbonWithGEE(request.areaHectares, ndviMean,
                                                        ndviStd, cloud, landCover)
              /\ CalcRespond(CalcSuccess(calcEstimate'))
    /\ UNCHANGED <<calcHandler, calcStored, calcDbInserts>>
    /\ UNCHANGED nonCalcVars

\* Deno.serve handler of the stored variant, up to the await of the insert.
ReceiveStored(request, cred) ==
    /\ calcHandler = "stored"
    /\ calcPc = "idle"
    /\ calcRequest' = request
    /\ calcCredential' = IF request.bodyOk THEN cred ELSE calcCredential
    /\ IF ~request.bodyOk
       THEN /\ CalcRespond(CalcFailureGEE("Unexpected end of JSON input"))
            /\ UNCHANGED <<calcEstimate, calcDbInserts>>
       ELSE IF cred = "unparseable"
       THEN /\ CalcRespond(CalcFailureGEE("GEE processing failed: SyntaxError"))
            /\ UNCHANGED <<calcEstimate, calcDbInserts>>
       ELSE IF cred \in {"absent", "noClientEmail"}
       THEN /\ CalcRespond(CalcFailureGEE(
                   "GEE processing failed: GEE service account not configured properly"))
            /\ UNCHANGED <<calcEstimate, calcDbInserts>>
       ELSE \E ndviMean \in mockNdviMeanStored,
               ndviStd \in mockNdviStdStored,
               cloud \in mockCloudCoverageStored,
               landCover \in landCoverTypes :
              /\ calcEstimate' = calculateCarbonWithGEE(request.areaHectares, ndviMean,
                                                        ndviStd, cloud, landCover)
              /\ calcDbInserts' = calcDbInserts + 1
              /\ calcPc' = "db"
              /\ UNCHANGED calcResponse
    /\ UNCHANGED <<calcHandler, calcStored>>
    /\ UNCHANGED nonCalcVars

\* serve handler of the live variant (a request without action = 'getTileUrl'),
\* up to the await of the insert.
ReceiveLive(request) ==
    /\ calcHandler = "live"
    /\ calcPc = "idle"
    /\ calcRequest' = request
    /\ IF ~request.bodyOk
       THEN /\ CalcRespond(CalcFailureLive("Unexpected end of JSON input"))
            /\ UNCHANGED <<calcEstimate, calcDbInserts>>
       ELSE IF request.geometry.kind = "absent" \/ ~Truthy(request)
       THEN /\ CalcRespond(CalcFailureLive(
                   "Missing required parameters: geometry and areaHectares"))
            /\ UNCHANGED <<calcEstimate, calcDbInserts>>
       ELSE IF request.geometry.kind = "noCoordinates"
       THEN /\ CalcRespond(CalcFailureLive(
                   "GEE calculation failed: Invalid geometry provided - missing coordinates"))
            /\ UNCHANGED <<calcEstimate, calcDbInserts>>
       ELSE \E month \in Months :
            \E ndviMean \in ndviMeanLive(request.geometry.ring, month),
               ndviStd \in ndviStdLive,
               cloud \in cloudCoverageLive(month),
               landCover \in generateRealisticLandCover(request.geometry.ring) :
              /\ calcEstimate' = calculateCarbonWithLiveGEE(request.areaHectares, ndviMean,
                                                            ndviStd, cloud, landCover)
              /\ calcDbInserts' = calcDbInserts + 1
              /\ calcPc' = "db"
              /\ UNCHANGED calcResponse
    /\ UNCHANGED <<calcHandler, calcStored, calcCredential>>
    /\ UNCHANGED nonCalcVars

\* The insert into carbon_calculations settles: { data: calculation, error }.
CalcDbSettled(ok) ==
    /\ calcPc = "db"
    /\ IF ok
       THEN /\ calcStored' = calcEstimate
            /\ CalcRespond(CalcSuccess(calcEstimate))
       ELSE /\ UNCHANGED calcStored
            /\ CalcRespond(IF calcHandler = "live"
                           THEN CalcFailureLive("database error")
                           ELSE CalcFailureGEE("database error"))
    /\ UNCHANGED <<calcHandler, calcRequest, calcEstimate, calcDbInserts, calcCredential>>
    /\ UNCHANGED nonCalcVars

NextCalc ==
    \/ \E request \in CalcRequests, cred \in CalcCredentials :
          ReceiveSimulated(request, cred)
    \/ \E request \in CalcRequests, cred \in CalcCredentials :
          ReceiveStored(request, cred)
    \/ \E request \in CalcRequests : ReceiveLive(request)
    \/ \E ok \in BOOLEAN : CalcDbSettled(ok)

SpecCalc == InitCalc /\ [][NextCalc]_vars

(***************************************************************************)
(* The two engines applied to drawn arguments.                             *)
(***************************************************************************)
EngineNdviMeans == {NaN, -25, -11, -10, -9, 0, 3, 5, 8, 10, 15, 20, 25}
EngineNdviStds == {0, 3, 6, 9, 12}
EngineQualities == {"high", "medium", "low"}
EngineAreas == -1..MaxArea

\* Land-cover breakdowns in the categories of calculateCarbonFromRealData.
RealDataLandCovers ==
    {<<>>} \cup ForestedMixes \cup TropicalMixes \cup AridMixes \cup DefaultMixes
      \cup {<<[type |-> t, percentage |-> 20]>> : t \in RealDataTypes \cup {"Wetland"}}
      \cup {<<[type |-> "Forest", percentage |-> 10],
              [type |-> "Wetland", percentage |-> 10]>>}

\* Land-cover breakdowns in the categories of calculateCarbonFromNDVIAndLandCover.
NdviLandCovers ==
    {<<>>} \cup landCoverTypes
      \cup {<<[type |-> t, percentage |-> 20]>> : t \in NdviLandCoverTypes \cup {"Wetland"}}
      \cup {<<[type |-> "Grassland", percentage |-> 10],
              [type |-> "Dense Forest", percentage |-> 10]>>,
            <<[type |-> "Dense Forest", percentage |-> 10],
              [type |-> "Wetland", percentage |-> 10]>>}

EngineInputs ==
    [engine : {"realData"}, ndviMean : EngineNdviMeans, ndviStd : EngineNdviStds,
     landCover : RealDataLandCovers, areaHectares : EngineAreas,
     dataQuality : EngineQualities]
      \cup [engine : {"ndviLandCover"}, ndviMean : EngineNdviMeans,
            ndviStd : EngineNdviStds, landCover : NdviLandCovers,
            areaHectares : EngineAreas \cup {NaN}, dataQuality : {"none"}]

InitEngine ==
    /\ engInput \in EngineInputs
    /\ engOutput = NoEstimate
    /\ PollIdle
    /\ CalcIdle
    /\ TileIdle
    /\ AreaIdle
    /\ ClientIdle
    /\ TmIdle
    /\ PxIdle

ApplyRealData ==
    /\ engInput.engine = "realData"
    /\ engOutput = NoEstimate
    /\ engOutput' = calculateCarbonFromRealData(engInput.ndviMean, engInput.ndviStd,
                        engInput.landCover, engInput.areaHectares, engInput.dataQuality)
    /\ UNCHANGED engInput
    /\ UNCHANGED nonEngVars

ApplyNdviLandCover ==
    /\ engInput.engine = "ndviLandCover"
    /\ engOutput = NoEstimate
    /\ engOutput' = calculateCarbonFromNDVIAndLandCover(engInput.areaHectares,
                        engInput.ndviMean, engInput.ndviStd, engInput.landCover)
    /\ UNCHANGED engInput
    /\ UNCHANGED nonEngVars

NextEngine == ApplyRealData \/ ApplyNdviLandCover

SpecEngine == InitEngine /\ [][NextEngine]_vars

(***************************************************************************)
(* Properties of the calculate-carbon-gee handlers and of the engines.     *)
(***************************************************************************)
CalcResponded == calcPc = "responded"
CalcAccepted == calcPc # "idle" /\ calcRequest.bodyOk

\* A ring of at least 3 coordinates.
WellFormedRing(geometry) == geometry.kind = "polygon" /\ Len(geometry.ring) >= 3

\* Failures that have nothing to do with the geometry or the area of the request.
UnrelatedFailures ==
    {"database error", "GEE processing failed: SyntaxError",
     "GEE processing failed: GEE service account not configured properly"}

SumPercentages(landCover) ==
    SumSeq([i \in 1..Len(landCover) |-> landCover[i].percentage])

\* C6: every failed carbon-calculation request, in every variant of the
\* handler, yields a response with a non-2xx status whose body has
\* success = false and an error string and carries no calculation; no
\* response carries both an error and an estimate.
C6_FailureResponseShape ==
    (CalcResponded /\ calcResponse.error # "none") =>
        /\ calcResponse.status \notin 200..299
        /\ calcResponse.success = "false"
        /\ calcResponse.calculation = NoEstimate

\* C7: a calculation given a negative areaHectares ends in a failure: no
\* estimate is computed, returned or stored, and no request is sent to the
\* database.
C7_NegativeAreaRejected ==
    (CalcAccepted /\ calcRequest.hasArea /\ calcRequest.areaHectares < 0) =>
        /\ calcEstimate = NoEstimate
        /\ calcStored = NoEstimate
        /\ calcDbInserts = 0
        /\ CalcResponded => calcResponse.error # "none"

\* The engine side of C7: an engine given a negative area or an empty
\* land-cover breakdown returns no estimate.
C7_EngineInvalidInput ==
    (/\ engOutput # NoEstimate
     /\ \/ engInput.landCover = <<>>
        \/ engInput.areaHectares # NaN /\ engInput.areaHectares < 0) =>
        engOutput.error = "InvalidInput"

\* C8: a request whose geometry ring has fewer than 3 vertices, or has no
\* ring at all, is rejected before any estimation: no estimate is computed,
\* returned or stored for it.
C8_ShortRingRejected ==
    (CalcAccepted /\ ~WellFormedRing(calcRequest.geometry)) =>
        /\ calcEstimate = NoEstimate
        /\ calcStored = NoEstimate
        /\ CalcResponded => calcResponse.error # "none"

\* C9: a request with a well-formed ring and no areaHectares is served: unless
\* the credential or the database fails, the response is a success carrying a
\* numeric estimate for the area of the ring.
C9_AreaComputedWhenAbsent ==
    (/\ CalcResponded
     /\ calcRequest.bodyOk
     /\ WellFormedRing(calcRequest.geometry)
     /\ ~calcRequest.hasArea
     /\ calcResponse.error \notin UnrelatedFailures) =>
        /\ calcResponse.success = "true"
        /\ calcResponse.calculation # NoEstimate
        /\ calcResponse.calculation.total_co2e # NaN

\* The estimates C10 is about: percentages summing to 100, a known area >= 0,
\* and an engine that returned numbers.
C10_Estimate ==
    /\ engOutput # NoEstimate
    /\ engOutput.error = "none"
    /\ engOutput.total_co2e # NaN
    /\ SumPercentages(engInput.landCover) = 20
    /\ engInput.areaHectares # NaN
    /\ engInput.areaHectares >= 0

\* |3.67 * (above + below + soil) - total| in ten-thousandths.
C10_Gap ==
    Abs(367 * (engOutput.above_ground_biomass + engOutput.below_ground_biomass
                 + engOutput.soil_organic_carbon)
          - 100 * engOutput.total_co2e)

\* C10: for every estimate an engine returns, (aboveGroundBiomass +
\* belowGroundBiomass + soilOrganicCarbon) * 3.67 equals totalCO2e within the
\* rounding of the four two-decimal outputs (0.06), in both engines.
C10_PoolsTimesFactor == C10_Estimate => C10_Gap <= 600

\* The same relation for calculateCarbonFromRealData alone.
C10_RealDataPoolsTimesFactor ==
    (C10_Estimate /\ engInput.engine = "realData") => C10_Gap <= 600

\* An estimate the handler returned, with a numeric total.
ReturnedEstimate ==
    /\ CalcResponded
    /\ calcResponse.success = "true"
    /\ calcResponse.calculation.total_co2e # NaN

\* C11: every estimate returned carries an uncertaintyRange that is a pair
\* (lowBound, highBound) with lowBound <= totalCO2e <= highBound, where
\* lowBound = totalCO2e * (1 - f) and highBound = totalCO2e * (1 + f) for the
\* uncertainty factor f of its dataQuality class.
C11_UncertaintyPair ==
    ReturnedEstimate =>
        LET e == calcResponse.calculation
            f == uncertaintyFactor(e.data_quality)
        IN  /\ e.uncertainty_range.kind = "pair"
            /\ e.uncertainty_range.low = e.total_co2e * (100 - f)
            /\ e.uncertainty_range.high = e.total_co2e * (100 + f)
            /\ e.uncertainty_range.low <= 100 * e.total_co2e
            /\ 100 * e.total_co2e <= e.uncertainty_range.high

\* The same for the simulated and stored variants, given an area >= 0.
C11_PairForValidArea ==
    (ReturnedEstimate /\ calcHandler # "live" /\ calcRequest.areaHectares >= 0) =>
        LET e == calcResponse.calculation
            f == uncertaintyFactor(e.data_quality)
        IN  /\ e.uncertainty_range.kind = "pair"
            /\ e.uncertainty_range.low = e.total_co2e * (100 - f)
            /\ e.uncertainty_range.high = e.total_co2e * (100 + f)
            /\ e.uncertainty_range.low <= 100 * e.total_co2e
            /\ 100 * e.total_co2e <= e.uncertainty_range.high

\* The same for the simulated and stored variants, whatever the area.
C11_PairForAnyArea ==
    (ReturnedEstimate /\ calcHandler # "live") =>
        /\ calcResponse.calculation.uncertainty_range.low
             <= 100 * calcResponse.calculation.total_co2e
        /\ 100 * calcResponse.calculation.total_co2e
             <= calcResponse.calculation.uncertainty_range.high

\* meanIndex values of [-1, 1] on the 0.04 grid.
IndexGrid == -25..25

\* What the engine of engInput returns for the arguments in input.
EngineResult(input) ==
    IF input.engine = "realData"
    THEN calculateCarbonFromRealData(input.ndviMean, input.ndviStd, input.landCover,
                                     input.areaHectares, input.dataQuality)
    ELSE calculateCarbonFromNDVIAndLandCover(input.areaHectares, input.ndviMean,
                                             input.ndviStd, input.landCover)

\* An engine call with a meanIndex, an area >= 0 and a numeric result.
NumericEstimate ==
    /\ engOutput # NoEstimate
    /\ engOutput.error = "none"
    /\ engInput.ndviMean # NaN
    /\ engInput.areaHectares # NaN
    /\ engInput.areaHectares >= 0

\* C12: holding land cover, area, indexStdDev and data quality fixed, a larger
\* meanIndex in [-1, 1] never gives a smaller aboveGroundBiomass, in both
\* engines.
C12_MonotoneInMeanIndex ==
    NumericEstimate =>
        \A b \in IndexGrid :
            b >= engInput.ndviMean =>
                EngineResult([engInput EXCEPT !.ndviMean = b]).above_ground_biomass
                    >= engOutput.above_ground_biomass

\* The same for calculateCarbonFromRealData alone.
C12_RealDataMonotone ==
    (NumericEstimate /\ engInput.engine = "realData") =>
        \A b \in IndexGrid :
            b >= engInput.ndviMean =>
                EngineResult([engInput EXCEPT !.ndviMean = b]).above_ground_biomass
                    >= engOutput.above_ground_biomass

\* The same for calculateCarbonFromNDVIAndLandCover away from the meanIndex
\* at which a coefficient in use is exactly zero.
C12_NdviMonotoneAwayFromZero ==
    (/\ NumericEstimate
     /\ engInput.engine = "ndviLandCover"
     /\ \A i \in 1..Len(engInput.landCover) :
           engInput.landCover[i].type \in NdviLandCoverTypes =>
               carbonCoefficientNdvi(engInput.landCover[i].type, engInput.ndviMean) # 0) =>
        \A b \in IndexGrid :
            (/\ b >= engInput.ndviMean
             /\ \A i \in 1..Len(engInput.landCover) :
                   engInput.landCover[i].type \in NdviLandCoverTypes =>
                       carbonCoefficientNdvi(engInput.landCover[i].type, b) # 0) =>
                EngineResult([engInput EXCEPT !.ndviMean = b]).above_ground_biomass
                    >= engOutput.above_ground_biomass

\* cloudCoveragePercent values on both sides of every threshold.
CloudGrid == {0, 10, 11, 20, 21, 49, 50, 60}

\* The estimate the handler would have computed from the same request and the
\* same signal with cloud coverage c.
EstimateAtCloud(c) ==
    IF calcHandler = "live"
    THEN calculateCarbonWithLiveGEE(calcRequest.areaHectares, calcEstimate.ndvi_mean,
                                    calcEstimate.ndvi_std, c, calcEstimate.land_cover)
    ELSE calculateCarbonWithGEE(calcRequest.areaHectares, calcEstimate.ndvi_mean,
                                calcEstimate.ndvi_std, c, calcEstimate.land_cover)

\* High, Medium, Low as 0, 1, 2.
QualityRank(dataQuality) ==
    IF dataQuality \in {"High", "high"} THEN 0
    ELSE IF dataQuality \in {"Medium", "medium"} THEN 1 ELSE 2

\* The class the cloud coverage alone gives.
CloudClass(c) ==
    IF calcHandler = "live"
    THEN (IF c < 20 THEN 0 ELSE IF c < 50 THEN 1 ELSE 2)
    ELSE (IF c > 20 THEN 2 ELSE IF c > 10 THEN 1 ELSE 0)

\* The class the index variability alone gives.
StdClass(ndviStd) ==
    IF calcHandler = "live" THEN 0
    ELSE (IF ndviStd > 12 THEN 2 ELSE IF ndviStd > 8 THEN 1 ELSE 0)

\* Width of the reported uncertainty: highBound - lowBound, or the percentage.
Width(e) ==
    IF e.uncertainty_range.kind = "pair"
    THEN e.uncertainty_range.high - e.uncertainty_range.low
    ELSE e.uncertainty_range.value

\* An estimate was computed and its total is a positive number.
PositiveEstimate ==
    /\ calcEstimate # NoEstimate
    /\ calcEstimate.total_co2e # NaN
    /\ calcEstimate.total_co2e > 0

\* C13 as stated: raising the cloud coverage never improves dataQuality, and
\* every crossing of the High/Medium or Medium/Low cloud threshold strictly
\* widens the reported uncertainty.
C13_EveryCrossingWidens ==
    PositiveEstimate =>
        \A c \in CloudGrid :
            c >= calcEstimate.cloud_coverage =>
                /\ QualityRank(EstimateAtCloud(c).data_quality)
                     >= QualityRank(calcEstimate.data_quality)
                /\ CloudClass(c) > CloudClass(calcEstimate.cloud_coverage) =>
                       Width(EstimateAtCloud(c)) > Width(calcEstimate)

\* C13, amended: raising the cloud coverage never improves dataQuality; the
\* reported uncertainty strictly widens whenever dataQuality worsens; and
\* crossing a cloud threshold worsens dataQuality unless the index variability
\* alone already gives the class beyond the threshold (or a worse one).
C13_CrossingWidensUnlessStdDecides ==
    PositiveEstimate =>
        \A c \in CloudGrid :
            c >= calcEstimate.cloud_coverage =>
                /\ QualityRank(EstimateAtCloud(c).data_quality)
                     >= QualityRank(calcEstimate.data_quality)
                /\ QualityRank(EstimateAtCloud(c).data_quality)
                     > QualityRank(calcEstimate.data_quality) =>
                       Width(EstimateAtCloud(c)) > Width(calcEstimate)
                /\ (/\ CloudClass(c) > CloudClass(calcEstimate.cloud_coverage)
                    /\ CloudClass(c) > StdClass(calcEstimate.ndvi_std)) =>
                       Width(EstimateAtCloud(c)) > Width(calcEstimate)

\* A High estimate just below the threshold that is Medium, Low and wider above.
C13_Witness ==
    /\ PositiveEstimate
    /\ calcEstimate.cloud_coverage = 10
    /\ calcEstimate.data_quality = "High"
    /\ EstimateAtCloud(11).data_quality = "Medium"
    /\ EstimateAtCloud(21).data_quality = "Low"
    /\ Width(EstimateAtCloud(11)) > Width(calcEstimate)
    /\ Width(EstimateAtCloud(21)) > Width(EstimateAtCloud(11))

\* A request with a ring geometry and an area, read by the handler.
RingAndArea ==
    /\ CalcAccepted
    /\ calcRequest.geometry.kind = "polygon"
    /\ calcRequest.hasArea

\* C14: the simulated calculation never fails and calls no external service:
\* for every request with a ring geometry and an area the calculation returns
\* an estimate, whether the credential is absent, unparseable or without
\* client_email, and sends no token, compute or status request.
C14_SimulationNeverFails ==
    RingAndArea =>
        /\ calcEstimate # NoEstimate
        /\ CalcResponded => calcResponse.error \notin
               {"GEE processing failed: SyntaxError",
                "GEE processing failed: GEE service account not configured properly",
                "GEE processing failed: TypeError"}
        /\ tokenRequests = 0 /\ computeRequests = 0 /\ statusFetches = 0

\* The same for the variants other than the stored one; the live variant
\* needs a truthy area.
C14_NeverFailsOutsideStored ==
    (RingAndArea /\ calcHandler # "stored"
       /\ (calcHandler = "live" => Truthy(calcRequest))) =>
        /\ calcEstimate # NoEstimate
        /\ tokenRequests = 0 /\ computeRequests = 0 /\ statusFetches = 0

\* Where the vegetation signal of a variant comes from: all three draw it from
\* Math.random(), the centroid and the month; none reads imagery.
signalVariant(h) ==
    CASE h = "simulated" -> "simulated"
      [] h = "stored"    -> "simulated"
      [] h = "live"      -> "simulated"

\* The calculation_method that names live Sentinel-2 imagery.
LiveTags == {"Live GEE Sentinel-2 + Scientific Models"}

\* C15: the calculation_method of every returned estimate records the
\* variant that ran: an estimate computed from the simulated signal never
\* carries the tag of the live (real imagery) variant.
C15_TagRecordsVariant ==
    (/\ CalcResponded
     /\ calcResponse.success = "true"
     /\ signalVariant(calcHandler) = "simulated") =>
        calcResponse.calculation.calculation_method \notin LiveTags

\* The same for the variants of calculate-carbon-gee/index.ts alone.
C15_TagOutsideLive ==
    (CalcResponded /\ calcResponse.success = "true" /\ calcHandler # "live") =>
        calcResponse.calculation.calculation_method \notin LiveTags

\* A credential that is present but is not JSON, or lacks a field the JWT needs.
MalformedCredentials == {"unparseable", "noPrivateKey", "noClientEmail"}

\* C16: when the service-account credential is present but unparseable, or
\* lacks a required field, the invocation fails at once: it ends with a
\* failure response and sends no token request and no compute request.
C16_MalformedCredentialFailsAtOnce ==
    (pc # "idle" /\ credential \in MalformedCredentials) =>
        /\ Responded
        /\ ~response.success
        /\ tokenRequests = 0 /\ computeRequests = 0 /\ statusFetches = 0

\* The same without the credential that lacks client_email only.
C16_UnparseableOrUnsignable ==
    (pc # "idle" /\ credential \in {"unparseable", "noPrivateKey"}) =>
        /\ Responded
        /\ ~response.success
        /\ tokenRequests = 0 /\ computeRequests = 0 /\ statusFetches = 0

\* C16 for the simulated variant of calculate-carbon-gee: an unparseable
\* credential is not answered with a simulated estimate.
C16_NoSimulatedSubstitute ==
    (CalcResponded /\ calcCredential \in MalformedCredentials) =>
        calcResponse.success # "true"

(***************************************************************************)
(* The getTileUrl requests of the live variant: generateGEETileUrl,        *)
(* getGEEAuthToken, createJWT, create...Image, executeGEECode and          *)
(* getGEETileUrl.                                                          *)
(***************************************************************************)
\* The cases of the switch on layerId; "other" takes the default branch.
LayerIds == {"ndvi", "landcover", "biomass", "change", "clouds", "cloudcover", "other"}

\* A body that parses carries action = 'getTileUrl' and a layerId.
TileRequests ==
    [bodyOk : {TRUE}, layerId : LayerIds] \cup [bodyOk : {FALSE}, layerId : {"none"}]

TileCredentials ==
    {"absent", "unparseable", "noPrivateKey", "noClientEmail", "noProjectId", "ok"}

\* What the awaited token fetch and the read of its body settle to.
TileTokenReplies ==
    [net : {"ok"}, ok : BOOLEAN, body : {"object"}, access_token : BOOLEAN]
    \cup [net : {"ok"}, ok : BOOLEAN, body : {"null", "invalid"}, access_token : {FALSE}]
    \cup [net : {"throw"}, ok : {FALSE}, body : {"invalid"}, access_token : {FALSE}]

\* What the awaited POST to .../maps and the read of its body settle to.
TileMapReplies ==
    [net : {"ok"}, ok : BOOLEAN, body : {"object"}, name : BOOLEAN]
    \cup [net : {"ok"}, ok : BOOLEAN, body : {"null", "invalid"}, name : {FALSE}]
    \cup [net : {"throw"}, ok : {FALSE}, body : {"invalid"}, name : {FALSE}]

\* The response with the tile URL template.
TileSuccess ==
    [kind |-> "response", status |-> StatusOK, success |-> "absent",
     error |-> "none", tileUrl |-> TRUE]

\* The response of the catch block of the handler.
TileFailure(message) ==
    [kind |-> "response", status |-> StatusInternalError, success |-> "false",
     error |-> message, tileUrl |-> FALSE]

InitTile ==
    /\ tilePc = "idle"
    /\ tileRequest = NoRequest
    /\ tileCredential = "unread"
    /\ tileAuthToken = "none"
    /\ tileTokenRequests = 0
    /\ tileMapRequests = 0
    /\ tileResponse = NoResponse
    /\ PollIdle
    /\ CalcIdle
    /\ EngIdle
    /\ AreaIdle
    /\ ClientIdle
    /\ TmIdle
    /\ PxIdle

TileRespond(r) ==
    /\ tilePc' = "responded"
    /\ tileResponse' = r

\* serve handler with action = 'getTileUrl': the body, then generateGEETileUrl
\* up to the await of the token fetch in getGEEAuthToken. signOk: createJWT
\* could decode and import the private key and sign.
TileReceive(request, cred, signOk) ==
    /\ tilePc = "idle"
    /\ tileRequest' = request
    /\ tileCredential' = IF request.bodyOk THEN cred ELSE tileCredential
    /\ IF ~request.bodyOk
         THEN /\ TileRespond(TileFailure("Unexpected end of JSON input"))
              /\ UNCHANGED tileTokenRequests
       ELSE IF cred = "absent"
         THEN /\ TileRespond(TileFailure(
                     "Failed to generate GEE tiles: GEE_SERVICE_ACCOUNT not configured"))
              /\ UNCHANGED tileTokenRequests
       ELSE IF cred = "unparseable"
         THEN /\ TileRespond(TileFailure(
                     "Failed to generate GEE tiles: Invalid service account JSON format: SyntaxError"))
              /\ UNCHANGED tileTokenRequests
       ELSE IF cred \in {"noPrivateKey", "noClientEmail", "noProjectId"}
         THEN /\ TileRespond(TileFailure(
                     "Failed to generate GEE tiles: Invalid service account JSON format: Service account missing required fields"))
              /\ UNCHANGED tileTokenRequests
       ELSE IF ~signOk
         THEN /\ TileRespond(TileFailure("Failed to generate GEE tiles: signing failed"))
              /\ UNCHANGED tileTokenRequests
       ELSE /\ tileTokenRequests' = tileTokenRequests + 1
            /\ tilePc' = "token"
            /\ UNCHANGED tileResponse
    /\ UNCHANGED <<tileAuthToken, tileMapRequests>>
    /\ UNCHANGED nonTileVars

\* The token fetch of getGEEAuthToken settles. The function returns
\* tokenData.access_token as it is, and every branch of the switch then calls
\* executeGEECode, which POSTs to the maps endpoint with that value as Bearer.
TileTokenSettled(reply) ==
    /\ tilePc = "token"
    /\ IF reply.net = "throw"
         THEN /\ TileRespond(TileFailure("Failed to generate GEE tiles: network"))
              /\ UNCHANGED <<tileAuthToken, tileMapRequests>>
       ELSE IF ~reply.ok
         THEN /\ TileRespond(TileFailure("Failed to generate GEE tiles: OAuth failed"))
              /\ UNCHANGED <<tileAuthToken, tileMapRequests>>
       ELSE IF reply.body = "invalid"
         THEN /\ TileRespond(TileFailure("Failed to generate GEE tiles: SyntaxError"))
              /\ UNCHANGED <<tileAuthToken, tileMapRequests>>
       ELSE IF reply.body = "null"
         THEN /\ TileRespond(TileFailure("Failed to generate GEE tiles: TypeError"))
              /\ UNCHANGED <<tileAuthToken, tileMapRequests>>
       ELSE /\ tileAuthToken' = IF reply.access_token THEN "token" ELSE "undefined"
            /\ tileMapRequests' = tileMapRequests + 1
            /\ tilePc' = "map"
            /\ UNCHANGED tileResponse
    /\ UNCHANGED <<tileRequest, tileCredential, tileTokenRequests>>
    /\ UNCHANGED nonTileVars

\* The POST of executeGEECode settles; getGEETileUrl splits result.name and
\* the handler returns the URL template.
TileMapSettled(reply) ==
    /\ tilePc = "map"
    /\ IF reply.net = "throw"
         THEN TileRespond(TileFailure("Failed to generate GEE tiles: network"))
       ELSE IF ~reply.ok
         THEN TileRespond(TileFailure("Failed to generate GEE tiles: GEE API failed"))
       ELSE IF reply.body = "invalid"
         THEN TileRespond(TileFailure("Failed to generate GEE tiles: SyntaxError"))
       ELSE IF reply.body = "null" \/ ~reply.name
         THEN TileRespond(TileFailure("Failed to generate GEE tiles: TypeError"))
       ELSE TileRespond(TileSuccess)
    /\ UNCHANGED <<tileRequest, tileCredential, tileAuthToken, tileTokenRequests,
                   tileMapRequests>>
    /\ UNCHANGED nonTileVars

NextTile ==
    \/ \E request \in TileRequests, cred \in TileCredentials, signOk \in BOOLEAN :
           TileReceive(request, cred, signOk)
    \/ \E reply \in TileTokenReplies : TileTokenSettled(reply)
    \/ \E reply \in TileMapReplies : TileMapSettled(reply)

SpecTile == InitTile /\ [][NextTile]_vars

\* C17: one invocation sends exactly one request to the token endpoint; if
\* that exchange yields no access token the invocation fails, and no request
\* to the compute endpoint is ever sent without an access token obtained
\* earlier in the same invocation. Here for getTileUrl requests.
C17_TokenBeforeCompute ==
    /\ tileTokenRequests <= 1
    /\ tileMapRequests > 0 => (tileTokenRequests = 1 /\ tileAuthToken = "token")
    /\ (tilePc = "responded" /\ tileResponse.tileUrl) => tileAuthToken = "token"

\* The same for the polling handlers, which test tokenData.access_token.
C17_PollTokenBeforeCompute ==
    /\ tokenRequests <= 1
    /\ (computeRequests > 0 \/ statusFetches > 0) => (tokenRequests = 1 /\ tokenData)
    /\ (Responded /\ response.success) => tokenData

\* getTileUrl sends at most one token request and no map request before it.
C17_TileOneTokenRequest ==
    /\ tileTokenRequests <= 1
    /\ tileMapRequests <= tileTokenRequests

\* C16 for getTileUrl requests: generateGEETileUrl validates the credential
\* before getGEEAuthToken is called.
C16_TileMalformedCredential ==
    (tilePc # "idle" /\ tileCredential \in
         {"unparseable", "noPrivateKey", "noClientEmail", "noProjectId"}) =>
        /\ tilePc = "responded"
        /\ tileResponse.success = "false"
        /\ tileTokenRequests = 0 /\ tileMapRequests = 0

(***************************************************************************)
(* JavaScript numbers: IEEE 754 binary64, round to nearest, ties to even.  *)
(* A finite number is a sign and the set of the exponents of the powers of *)
(* two that sum to its magnitude; after rounding the set spans at most 53  *)
(* positions. The model's values stay far from overflow and from the       *)
(* subnormal range.                                                        *)
(***************************************************************************)
MantissaBits == 53

SymDiff(A, B) == (A \ B) \cup (B \ A)
MaxOf(A) == CHOOSE k \in A : \A j \in A : j <= k
Shift(A, n) == {k + n : k \in A}

\* Magnitude comparison: A is greater than B.
GreaterBits(A, B) == A # B /\ MaxOf(SymDiff(A, B)) \in A

\* Binary addition. A carry enters position k when the nearest position
\* below k that does not hold exactly one bit holds two.
AddBits(A, B) ==
    IF A = {} THEN B
    ELSE IF B = {} THEN A
    ELSE LET U  == A \cup B
             lo == CHOOSE k \in U : \A j \in U : k <= j
             carry(k) ==
                 LET below == {j \in lo..(k - 1) : j \notin SymDiff(A, B)}
                 IN  below # {} /\ MaxOf(below) \in A \cap B
         IN  {k \in lo..(MaxOf(U) + 1) : ((k \in A) # (k \in B)) # carry(k)}

\* Binary subtraction for A >= B. A borrow leaves position k when the nearest
\* position below k where the operands differ holds a bit of B.
SubBits(A, B) ==
    IF B = {} THEN A
    ELSE LET U  == A \cup B
             lo == CHOOSE k \in U : \A j \in U : k <= j
             borrow(k) ==
                 LET below == {j \in SymDiff(A, B) : j < k}
                 IN  below # {} /\ MaxOf(below) \in B
         IN  {k \in lo..MaxOf(U) : ((k \in A) # (k \in B)) # borrow(k)}

\* Binary multiplication: the sum of the shifted copies of A, one for each
\* bit of B, added pairwise.
RECURSIVE MulBits(_, _)
MulBits(A, B) ==
    IF A = {} \/ B = {} THEN {}
    ELSE IF Cardinality(B) = 1 THEN Shift(A, MaxOf(B))
    ELSE LET p == CHOOSE k \in B :
                      Cardinality({j \in B : j < k}) = Cardinality(B) \div 2
         IN  AddBits(MulBits(A, {j \in B : j < p}), MulBits(A, {j \in B : j >= p}))

\* Long division of R by B: the quotient bits from position k down to stop,
\* and the remainder.
RECURSIVE DivBits(_, _, _, _, _)
DivBits(R, B, k, stop, Q) ==
    IF k < stop THEN <<Q, R>>
    ELSE LET S == Shift(B, k)
         IN  IF R = S \/ GreaterBits(R, S)
             THEN DivBits(SubBits(R, S), B, k - 1, stop, Q \cup {k})
             ELSE DivBits(R, B, k - 1, stop, Q)

\* Rounding of an exact magnitude to 53 significant bits, ties to even.
RoundBits(A) ==
    IF A = {} THEN {}
    ELSE LET cut  == MaxOf(A) - (MantissaBits - 1)
             keep == {k \in A : k >= cut}
             up   == /\ (cut - 1) \in A
                     /\ \/ \E k \in A : k < cut - 1
                        \/ cut \in A
         IN  IF up THEN AddBits(keep, {cut}) ELSE keep

Float(neg, bits) == [neg |-> neg, bits |-> bits]
PlusZero == Float(FALSE, {})

\* x + y
FAdd(x, y) ==
    IF x.neg = y.neg THEN Float(x.neg, RoundBits(AddBits(x.bits, y.bits)))
    ELSE IF x.bits = y.bits THEN PlusZero
    ELSE IF GreaterBits(x.bits, y.bits)
         THEN Float(x.neg, RoundBits(SubBits(x.bits, y.bits)))
    ELSE Float(y.neg, RoundBits(SubBits(y.bits, x.bits)))

\* x - y
FSub(x, y) == FAdd(x, Float(~y.neg, y.bits))

\* x * y
FMul(x, y) == Float(x.neg # y.neg, RoundBits(MulBits(x.bits, y.bits)))

\* x / y for y # 0: 56 quotient bits and a sticky bit for the remainder.
FDiv(x, y) ==
    IF x.bits = {} THEN Float(x.neg # y.neg, {})
    ELSE LET top  == MaxOf(x.bits) - MaxOf(y.bits)
             stop == top - (MantissaBits + 2)
             qr   == DivBits(x.bits, y.bits, top, stop, {})
             sticky == IF qr[2] = {} THEN {} ELSE {stop - 1}
         IN  Float(x.neg # y.neg, RoundBits(qr[1] \cup sticky))

\* Math.abs
MathAbs(x) == Float(FALSE, x.bits)

\* An integer literal.
IntBits(n) == {k \in 0..30 : (n \div (2 ^ k)) % 2 = 1}
FromInt(n) == IF n < 0 THEN Float(TRUE, IntBits(-n)) ELSE Float(FALSE, IntBits(n))

\* The literals 0.1 and 2.47105.
TenthBits ==
    {-4, -5, -8, -9, -12, -13, -16, -17, -20, -21, -24, -25, -28, -29, -32, -33,
     -36, -37, -40, -41, -44, -45, -48, -49, -52, -53, -55}
AcresPerHectareBits ==
    {1, -2, -3, -4, -5, -9, -12, -14, -15, -17, -19, -20, -21, -23, -24, -25, -28,
     -29, -33, -34, -38, -39, -40, -41, -42, -43, -47, -49}

(***************************************************************************)
(* calculatePolygonArea of the map client, in its three copies.            *)
(***************************************************************************)
MaxPoints == 3        \* points in one ring

AreaVariants == {"guarded", "hectaresAcres", "unguarded"}

\* [lng, lat] pairs a drawing can hold.
AreaPoints ==
    {<<Float(FALSE, TenthBits), FromInt(50)>>,
     <<FromInt(100), Float(FALSE, TenthBits)>>,
     <<FromInt(0), FromInt(0)>>,
     <<FromInt(1), FromInt(1)>>,
     <<FromInt(-100), FromInt(50)>>}

AreaRings == SeqsUpTo(AreaPoints, MaxPoints)

\* The loop of the shoelace formula from iteration i on.
RECURSIVE shoelace(_, _, _)
shoelace(coords, i, area) ==
    IF i > Len(coords) THEN area
    ELSE LET j == (i % Len(coords)) + 1
             plus  == FAdd(area, FMul(coords[i][1], coords[j][2]))
             minus == FSub(plus, FMul(coords[j][1], coords[i][2]))
         IN  shoelace(coords, i + 1, minus)

\* MapInterface.tsx, the copy with the length guard: a number of hectares.
calculatePolygonAreaGuarded(coordinates) ==
    IF Len(coordinates) < 3 THEN [kind |-> "number", hectares |-> PlusZero]
    ELSE LET area == FDiv(MathAbs(shoelace(coordinates, 1, PlusZero)), FromInt(2))
         IN  [kind |-> "number",
              hectares |-> FMul(FMul(area, FromInt(12321)), FromInt(100))]

\* Math.abs(area) / 2 * 111000 * 111000 / 10000
toHectares(area) ==
    FDiv(FMul(FMul(FDiv(MathAbs(area), FromInt(2)), FromInt(111000)),
              FromInt(111000)),
         FromInt(10000))

\* MapInterface.tsx, the copy that returns { hectares, acres }.
calculatePolygonAreaHectaresAcres(coords) ==
    LET hectares == toHectares(shoelace(coords, 1, PlusZero))
    IN  [kind |-> "object", hectares |-> hectares,
         acres |-> FMul(hectares, Float(FALSE, AcresPerHectareBits))]

\* part_002: the copy that returns the number of hectares.
calculatePolygonAreaUnguarded(coords) ==
    [kind |-> "number", hectares |-> toHectares(shoelace(coords, 1, PlusZero))]

InitArea ==
    /\ areaVariant \in AreaVariants
    /\ areaCoords \in AreaRings
    /\ areaResult = NoEstimate
    /\ PollIdle
    /\ CalcIdle
    /\ EngIdle
    /\ TileIdle
    /\ ClientIdle
    /\ TmIdle
    /\ PxIdle

ApplyGuarded ==
    /\ areaVariant = "guarded"
    /\ areaResult = NoEstimate
    /\ areaResult' = calculatePolygonAreaGuarded(areaCoords)
    /\ UNCHANGED <<areaVariant, areaCoords>>
    /\ UNCHANGED nonAreaVars

ApplyHectaresAcres ==
    /\ areaVariant = "hectaresAcres"
    /\ areaResult = NoEstimate
    /\ areaResult' = calculatePolygonAreaHectaresAcres(areaCoords)
    /\ UNCHANGED <<areaVariant, areaCoords>>
    /\ UNCHANGED nonAreaVars

ApplyUnguarded ==
    /\ areaVariant = "unguarded"
    /\ areaResult = NoEstimate
    /\ areaResult' = calculatePolygonAreaUnguarded(areaCoords)
    /\ UNCHANGED <<areaVariant, areaCoords>>
    /\ UNCHANGED nonAreaVars

NextArea == ApplyGuarded \/ ApplyHectaresAcres \/ ApplyUnguarded

SpecArea == InitArea /\ [][NextArea]_vars

\* C18: calculatePolygonArea returns 0 for every ring with fewer than 3
\* points, and a non-negative area for every ring, in every copy of the
\* function.
C18_ShortRingZeroAndNonNegative ==
    areaResult # NoEstimate =>
        /\ ~areaResult.hectares.neg
        /\ Len(areaCoords) < 3 => areaResult.hectares.bits = {}

\* The area is never negative, in every copy.
C18_NonNegative ==
    areaResult # NoEstimate => ~areaResult.hectares.neg

\* The copy with the guard returns 0 for fewer than 3 points; the copies
\* without it return 0 for an empty ring and for a single point.
C18_ZeroWhereExact ==
    (/\ areaResult # NoEstimate
     /\ \/ areaVariant = "guarded" /\ Len(areaCoords) < 3
        \/ Len(areaCoords) < 2) =>
        areaResult.hectares.bits = {}

\* The categories an engine has coefficients for.
KnownTypes(engine) ==
    IF engine = "realData" THEN RealDataTypes ELSE NdviLandCoverTypes

\* The breakdown without the categories the engine has no coefficients for.
KnownOnly(input) ==
    SelectSeq(input.landCover, LAMBDA e : e.type \in KnownTypes(input.engine))

\* total_co2e of the engine for the breakdown without those categories; an
\* empty breakdown stores nothing.
TotalOfKnown(input) ==
    IF KnownOnly(input) = <<>> THEN 0
    ELSE EngineResult([input EXCEPT !.landCover = KnownOnly(input)]).total_co2e

\* An engine call with a positive area, a numeric index and a breakdown that
\* gives a share of the area to a category outside the coefficient table.
UnknownCategoryInput ==
    /\ engOutput # NoEstimate
    /\ engInput.areaHectares # NaN /\ engInput.areaHectares > 0
    /\ engInput.ndviMean # NaN
    /\ \E i \in 1..Len(engInput.landCover) :
           /\ engInput.landCover[i].type \notin KnownTypes(engInput.engine)
           /\ engInput.landCover[i].percentage > 0

\* C19: a land-cover category without an entry in the coefficient table
\* still contributes through a default coefficient: the engine does not fail
\* and the estimate is larger than it is without that category.
C19_UnknownCategoryContributes ==
    UnknownCategoryInput =>
        /\ engOutput.error = "none"
        /\ engOutput.total_co2e > TotalOfKnown(engInput)

\* The same for calculateCarbonFromNDVIAndLandCover alone.
C19_NdviDefaultCoefficient ==
    (UnknownCategoryInput /\ engInput.engine = "ndviLandCover") =>
        /\ engOutput.error = "none"
        /\ engOutput.total_co2e > TotalOfKnown(engInput)

\* calculateCarbonFromRealData leaves the category out of every pool.
C19_RealDataDropsUnknown ==
    (UnknownCategoryInput /\ engInput.engine = "realData") =>
        /\ engOutput.error = "none"
        /\ engOutput.total_co2e = TotalOfKnown(engInput)

\* The indexStdDev at which the variability factor of an engine is 1.0, in
\* steps of 0.025: 0.075 in calculateCarbonFromRealData, 0 in
\* calculateCarbonFromNDVIAndLandCover.
referenceStd(engine) == IF engine = "realData" THEN 3 ELSE 0

\* The variability factor of an engine as a fraction <<numerator, denominator>>.
variabilityFactor(engine, ndviStd) ==
    IF engine = "realData" THEN <<variabilityFactorRealData(ndviStd), 20>>
    ELSE <<variabilityFactorNdvi(ndviStd), 60>>

\* total_co2e of the engine call of this state with another indexStdDev.
TotalAtStd(s) == EngineResult([engInput EXCEPT !.ndviStd = s]).total_co2e

\* C20: the variability factor is 1.0 at the reference standard deviation
\* and never increases as indexStdDev grows: holding the other inputs fixed,
\* a larger indexStdDev never yields a larger totalCO2e, in both engines.
C20_VariabilityNeverIncreases ==
    NumericEstimate =>
        /\ variabilityFactor(engInput.engine, referenceStd(engInput.engine))[1]
             = variabilityFactor(engInput.engine, referenceStd(engInput.engine))[2]
        /\ \A s \in EngineNdviStds :
               s >= engInput.ndviStd =>
                   /\ variabilityFactor(engInput.engine, s)[1]
                        <= variabilityFactor(engInput.engine, engInput.ndviStd)[1]
                   /\ TotalAtStd(s) <= engOutput.total_co2e

\* calculateCarbonFromNDVIAndLandCover: the factor is 1.0 at 0 and never
\* increases, so a non-negative total never grows with indexStdDev.
C20_NdviNeverIncreases ==
    (NumericEstimate /\ engInput.engine = "ndviLandCover") =>
        /\ variabilityFactorNdvi(referenceStd("ndviLandCover")) = 60
        /\ \A s \in EngineNdviStds :
               s >= engInput.ndviStd =>
                   /\ variabilityFactorNdvi(s) <= variabilityFactorNdvi(engInput.ndviStd)
                   /\ engOutput.total_co2e >= 0 => TotalAtStd(s) <= engOutput.total_co2e

\* calculateCarbonFromRealData: the factor is 1.0 at 0.075 and grows with
\* indexStdDev, and the total never shrinks.
C20_RealDataNeverDecreases ==
    (NumericEstimate /\ engInput.engine = "realData") =>
        /\ variabilityFactorRealData(referenceStd("realData")) = 20
        /\ \A s \in EngineNdviStds :
               s > engInput.ndviStd =>
                   /\ variabilityFactorRealData(s) > variabilityFactorRealData(engInput.ndviStd)
                   /\ TotalAtStd(s) >= engOutput.total_co2e

\* above_ground_biomass of the engine call of this state with another meanIndex.
BiomassAtMean(b) == EngineResult([engInput EXCEPT !.ndviMean = b]).above_ground_biomass

\* The meanIndex at which the multiplier is 1.0 (0.4), and the clamp ceiling (0.8).
UnitMultiplierMean == 10
ClampCeilingMean == 20

\* C21: the vegetation-index multiplier of calculateCarbonFromRealData lies
\* in [0.2, 2.0] for every meanIndex: above_ground_biomass is never below
\* 0.2 times and never above 2.0 times the value obtained with multiplier 1
\* (both rounded to hundredths), and every meanIndex at or above 0.8 gives
\* the same above_ground_biomass.
C21_MultiplierClamped ==
    (NumericEstimate /\ engInput.engine = "realData") =>
        /\ ndviBiomassMultiplier(engInput.ndviMean) \in 2..20
        /\ 10 * engOutput.above_ground_biomass >= 2 * BiomassAtMean(UnitMultiplierMean) - 6
        /\ 10 * engOutput.above_ground_biomass <= 20 * BiomassAtMean(UnitMultiplierMean) + 15
        /\ engInput.ndviMean >= ClampCeilingMean =>
               \A b \in EngineNdviMeans :
                   b >= ClampCeilingMean =>
                       BiomassAtMean(b) = engOutput.above_ground_biomass

\* An estimate with biomass computed for a meanIndex above the ceiling, and
\* the engine has inputs below the floor as well.
C21_Witness ==
    /\ NumericEstimate
    /\ engInput.engine = "realData"
    /\ engInput.ndviMean > ClampCeilingMean
    /\ engOutput.above_ground_biomass > 0
    /\ engOutput.above_ground_biomass = 2 * BiomassAtMean(UnitMultiplierMean)
    /\ BiomassAtMean(-25) < BiomassAtMean(UnitMultiplierMean)

(***************************************************************************)
(* The MapInterface component, in its three copies:                        *)
(*   "finishAwait"  part_003 (and the first component of MapInterface.tsx):*)
(*                  Finish awaits the calculation                          *)
(*   "clickCalc"    part_002: every click from the third point on starts a *)
(*                  calculation                                            *)
(*   "finishAsync"  the second component of MapInterface.tsx: Finish       *)
(*                  starts the calculation and returns                     *)
(* A point is named by a number; a click lands on a new point or, for the  *)
(* second and third click, on the point clicked before. Each handler runs  *)
(* on the state of the latest render.                                      *)
(***************************************************************************)
MaxClicks == 11       \* map clicks in one behaviour
MaxRequests == 3      \* Finish / Calculate presses that send a request

ClientVariants == {"finishAwait", "clickCalc", "finishAsync"}

\* A marker, layer or source of the map.
Layer(name, n) == [name |-> name, n |-> n]

\* Where a click can land.
ClickPoints(coords) ==
    {Len(coords) + 1}
      \cup (IF Len(coords) \in 1..2 THEN {coords[Len(coords)]} ELSE {})

\* for (let i = 1; i <= 10; i++) of clearDrawingMarkers
ClearedMarkerNumbers == 1..10

\* clearDrawingMarkers of part_002
clearDrawingMarkers(layers) ==
    {l \in layers : ~(l.name = "drawing-point" /\ l.n \in ClearedMarkerNumbers)}

\* clearAllDrawingElements of part_002
clearAllDrawingElements(layers) ==
    {l \in clearDrawingMarkers(layers) : l.name \notin {"polygon-preview", "selected-area"}}

\* The layers clearDrawing of MapInterface.tsx removes.
clearDrawingLayers(layers) ==
    {l \in layers : l.name \notin {"drawing-source", "selected-area"}}

\* geometry.coordinates[0] of the request body.
submittedRing(variant, coords) ==
    IF variant = "finishAwait" THEN Append(coords, coords[1]) ELSE coords

InitClient ==
    /\ uiVariant \in ClientVariants
    /\ uiDrawing = FALSE
    /\ uiCoords = <<>>
    /\ uiLayers = {}
    /\ uiSelectedArea = NoRequest
    /\ uiCarbon = NoData
    /\ uiCalculating = FALSE
    /\ uiPending = {}
    /\ uiLastSent = NoRequest
    /\ uiRequests = 0
    /\ uiClicks = 0
    /\ uiTimer = FALSE
    /\ PollIdle
    /\ CalcIdle
    /\ EngIdle
    /\ TileIdle
    /\ AreaIdle
    /\ TmIdle
    /\ PxIdle

\* calculateCarbonForArea / calculateCarbonForSelectedArea up to the await of
\* supabase.functions.invoke. awaited: the caller (finishDrawing of part_003)
\* continues when the request has settled.
SendCalculation(coords, awaited) ==
    /\ uiCalculating' = TRUE
    /\ uiRequests' = uiRequests + 1
    /\ uiPending' = uiPending \cup {[id |-> uiRequests + 1, awaited |-> awaited]}
    /\ uiLastSent' = [kind |-> "request", id |-> uiRequests + 1,
                      ring |-> submittedRing(uiVariant, coords)]

\* ---- part_003 ----
\* The Draw Area / Stop Drawing toggle.
ToggleDrawing ==
    /\ uiVariant = "finishAwait"
    /\ uiDrawing' = ~uiDrawing
    /\ UNCHANGED <<uiVariant, uiCoords, uiLayers, uiSelectedArea, uiCarbon, uiCalculating,
                   uiPending, uiLastSent, uiRequests, uiClicks, uiTimer>>
    /\ UNCHANGED nonClientVars

\* handleMapClick
ClickFinishAwait(p) ==
    /\ uiVariant = "finishAwait"
    /\ uiDrawing
    /\ uiClicks < MaxClicks
    /\ uiClicks' = uiClicks + 1
    /\ uiCoords' = Append(uiCoords, p)
    /\ uiLayers' = uiLayers \cup {Layer("marker", uiClicks + 1)}
                     \cup (IF Len(uiCoords) + 1 >= 3 THEN {Layer("polygon", 0)} ELSE {})
    /\ UNCHANGED <<uiVariant, uiDrawing, uiSelectedArea, uiCarbon, uiCalculating,
                   uiPending, uiLastSent, uiRequests, uiTimer>>
    /\ UNCHANGED nonClientVars

\* finishDrawing, up to the await inside calculateCarbonForArea.
FinishAwait ==
    /\ uiVariant = "finishAwait"
    /\ uiDrawing
    /\ Len(uiCoords) >= 3
    /\ uiRequests < MaxRequests
    /\ uiSelectedArea' = [kind |-> "area", coords |-> uiCoords, request |-> uiRequests + 1]
    /\ SendCalculation(uiCoords, TRUE)
    /\ UNCHANGED <<uiVariant, uiDrawing, uiCoords, uiLayers, uiCarbon, uiClicks, uiTimer>>
    /\ UNCHANGED nonClientVars

\* The Calculate Carbon Storage button of the selected-area card.
CalculateButton ==
    /\ uiVariant = "finishAwait"
    /\ uiSelectedArea # NoRequest
    /\ uiCarbon = NoData
    /\ ~uiCalculating
    /\ uiRequests < MaxRequests
    /\ uiSelectedArea' = [uiSelectedArea EXCEPT !.request = uiRequests + 1]
    /\ SendCalculation(uiSelectedArea.coords, FALSE)
    /\ UNCHANGED <<uiVariant, uiDrawing, uiCoords, uiLayers, uiCarbon, uiClicks, uiTimer>>
    /\ UNCHANGED nonClientVars

\* clearMap
ClearMapFinishAwait ==
    /\ uiVariant = "finishAwait"
    /\ uiLayers' = {}
    /\ uiCoords' = <<>>
    /\ uiDrawing' = FALSE
    /\ uiSelectedArea' = NoRequest
    /\ uiCarbon' = NoData
    /\ UNCHANGED <<uiVariant, uiCalculating, uiPending, uiLastSent, uiRequests, uiClicks,
                   uiTimer>>
    /\ UNCHANGED nonClientVars

\* ---- part_002 ----
\* startDrawing, up to the setTimeout.
StartDrawingClickCalc ==
    /\ uiVariant = "clickCalc"
    /\ ~uiDrawing
    /\ uiLayers' = clearAllDrawingElements(uiLayers)
    /\ uiCoords' = <<>>
    /\ uiSelectedArea' = NoRequest
    /\ uiCarbon' = NoData
    /\ uiTimer' = TRUE
    /\ UNCHANGED <<uiVariant, uiDrawing, uiCalculating, uiPending, uiLastSent, uiRequests,
                   uiClicks>>
    /\ UNCHANGED nonClientVars

\* The callback of the setTimeout of startDrawing.
TimerFires ==
    /\ uiVariant = "clickCalc"
    /\ uiTimer
    /\ uiTimer' = FALSE
    /\ uiDrawing' = TRUE
    /\ UNCHANGED <<uiVariant, uiCoords, uiLayers, uiSelectedArea, uiCarbon, uiCalculating,
                   uiPending, uiLastSent, uiRequests, uiClicks>>
    /\ UNCHANGED nonClientVars

\* cancelDrawing (the Stop Drawing button or Escape)
CancelDrawingClickCalc ==
    /\ uiVariant = "clickCalc"
    /\ uiDrawing
    /\ uiDrawing' = FALSE
    /\ uiCoords' = <<>>
    /\ uiSelectedArea' = NoRequest
    /\ uiCarbon' = NoData
    /\ uiLayers' = clearDrawingMarkers(uiLayers)
    /\ UNCHANGED <<uiVariant, uiCalculating, uiPending, uiLastSent, uiRequests, uiClicks,
                   uiTimer>>
    /\ UNCHANGED nonClientVars

\* handleMapClick with addPointMarker, showPolygonPreview and, from the third
\* point on, calculateCarbonForSelectedArea up to its await.
ClickClickCalc(p) ==
    /\ uiVariant = "clickCalc"
    /\ uiDrawing
    /\ uiClicks < MaxClicks
    /\ uiClicks' = uiClicks + 1
    /\ uiCoords' = Append(uiCoords, p)
    /\ uiLayers' = uiLayers \cup {Layer("drawing-point", Len(uiCoords) + 1)}
                     \cup (IF Len(uiCoords) + 1 >= 3
                           THEN {Layer("polygon-preview", 0)} ELSE {})
    /\ IF Len(uiCoords) + 1 >= 3
       THEN /\ uiSelectedArea' = [kind |-> "area", coords |-> uiCoords',
                                  request |-> uiRequests + 1]
            /\ SendCalculation(uiCoords', FALSE)
       ELSE UNCHANGED <<uiSelectedArea, uiCalculating, uiPending, uiLastSent, uiRequests>>
    /\ UNCHANGED <<uiVariant, uiDrawing, uiCarbon, uiTimer>>
    /\ UNCHANGED nonClientVars

\* clearMap
ClearMapClickCalc ==
    /\ uiVariant = "clickCalc"
    /\ uiLayers' = clearAllDrawingElements(uiLayers)
    /\ uiDrawing' = FALSE
    /\ uiCoords' = <<>>
    /\ uiSelectedArea' = NoRequest
    /\ uiCarbon' = NoData
    /\ UNCHANGED <<uiVariant, uiCalculating, uiPending, uiLastSent, uiRequests, uiClicks,
                   uiTimer>>
    /\ UNCHANGED nonClientVars

\* ---- MapInterface.tsx, second component ----
\* startDrawing
StartDrawingFinishAsync ==
    /\ uiVariant = "finishAsync"
    /\ ~uiDrawing
    /\ uiLayers' = clearDrawingLayers(uiLayers)
    /\ uiCoords' = <<>>
    /\ uiSelectedArea' = NoRequest
    /\ uiCarbon' = NoData
    /\ uiDrawing' = TRUE
    /\ UNCHANGED <<uiVariant, uiCalculating, uiPending, uiLastSent, uiRequests, uiClicks,
                   uiTimer>>
    /\ UNCHANGED nonClientVars

\* handleMapClick and the effect that runs updateDrawingLayer.
ClickFinishAsync(p) ==
    /\ uiVariant = "finishAsync"
    /\ uiDrawing
    /\ uiClicks < MaxClicks
    /\ uiClicks' = uiClicks + 1
    /\ uiCoords' = Append(uiCoords, p)
    /\ uiLayers' = uiLayers \cup {Layer("drawing-source", 0)}
    /\ UNCHANGED <<uiVariant, uiDrawing, uiSelectedArea, uiCarbon, uiCalculating,
                   uiPending, uiLastSent, uiRequests, uiTimer>>
    /\ UNCHANGED nonClientVars

\* finishDrawing with clearDrawing, the selected-area layers and
\* calculateCarbonForSelectedArea up to its await.
FinishAsync ==
    /\ uiVariant = "finishAsync"
    /\ uiDrawing
    /\ Len(uiCoords) >= 3
    /\ uiRequests < MaxRequests
    /\ uiLayers' = clearDrawingLayers(uiLayers) \cup {Layer("selected-area", 0)}
    /\ uiCarbon' = NoData
    /\ uiSelectedArea' = [kind |-> "area", coords |-> uiCoords, request |-> uiRequests + 1]
    /\ uiDrawing' = FALSE
    /\ uiCoords' = <<>>
    /\ SendCalculation(uiCoords, FALSE)
    /\ UNCHANGED <<uiVariant, uiClicks, uiTimer>>
    /\ UNCHANGED nonClientVars

\* The Cancel button or Escape: setIsDrawing(false); clearDrawing()
CancelFinishAsync ==
    /\ uiVariant = "finishAsync"
    /\ uiDrawing
    /\ uiDrawing' = FALSE
    /\ uiLayers' = clearDrawingLayers(uiLayers)
    /\ uiCoords' = <<>>
    /\ uiSelectedArea' = NoRequest
    /\ uiCarbon' = NoData
    /\ UNCHANGED <<uiVariant, uiCalculating, uiPending, uiLastSent, uiRequests, uiClicks,
                   uiTimer>>
    /\ UNCHANGED nonClientVars

\* clearMap: clearDrawing(); setIsDrawing(false)
ClearMapFinishAsync ==
    /\ uiVariant = "finishAsync"
    /\ uiDrawing' = FALSE
    /\ uiLayers' = clearDrawingLayers(uiLayers)
    /\ uiCoords' = <<>>
    /\ uiSelectedArea' = NoRequest
    /\ uiCarbon' = NoData
    /\ UNCHANGED <<uiVariant, uiCalculating, uiPending, uiLastSent, uiRequests, uiClicks,
                   uiTimer>>
    /\ UNCHANGED nonClientVars

\* ---- every copy ----
\* A request settles: the rest of calculateCarbonFor...Area (try, catch,
\* finally) and, in part_003, the rest of finishDrawing. ok: the reply has no
\* error and carries the calculation.
CalculationSettled(request, ok) ==
    /\ request \in uiPending
    /\ uiPending' = uiPending \ {request}
    /\ uiCarbon' = IF ok THEN [kind |-> "calculation", request |-> request.id]
                   ELSE uiCarbon
    /\ uiCalculating' = FALSE
    /\ uiDrawing' = IF request.awaited THEN FALSE ELSE uiDrawing
    /\ UNCHANGED <<uiVariant, uiCoords, uiLayers, uiSelectedArea, uiLastSent, uiRequests,
                   uiClicks, uiTimer>>
    /\ UNCHANGED nonClientVars

NextClient ==
    \/ ToggleDrawing
    \/ \E p \in ClickPoints(uiCoords) : ClickFinishAwait(p)
    \/ FinishAwait
    \/ CalculateButton
    \/ ClearMapFinishAwait
    \/ StartDrawingClickCalc
    \/ TimerFires
    \/ CancelDrawingClickCalc
    \/ \E p \in ClickPoints(uiCoords) : ClickClickCalc(p)
    \/ ClearMapClickCalc
    \/ StartDrawingFinishAsync
    \/ \E p \in ClickPoints(uiCoords) : ClickFinishAsync(p)
    \/ FinishAsync
    \/ CancelFinishAsync
    \/ ClearMapFinishAsync
    \/ \E request \in uiPending, ok \in BOOLEAN : CalculationSettled(request, ok)

SpecClient == InitClient /\ [][NextClient]_vars

\* The ring of the request sent last.
RingOf(sent) == {sent.ring[i] : i \in 1..Len(sent.ring)}

\* C22: every geometry the client submits to the calculation service is a
\* closed ring: it has at least 3 distinct vertices and its first and last
\* coordinates are equal, in every copy of MapInterface.
C22_SubmittedRingClosed ==
    uiLastSent # NoRequest =>
        /\ Cardinality(RingOf(uiLastSent)) >= 3
        /\ uiLastSent.ring[1] = uiLastSent.ring[Len(uiLastSent.ring)]

\* At least 3 points were clicked before any request; part_003 closes the ring.
C22_ThreePointsAndClosedInPart003 ==
    uiLastSent # NoRequest =>
        /\ Len(uiLastSent.ring) >= 3
        /\ uiVariant = "finishAwait" =>
               uiLastSent.ring[1] = uiLastSent.ring[Len(uiLastSent.ring)]

\* The copies other than part_003 submit the clicked points without closing them.
C22_ClosedOutsidePart003 ==
    (uiLastSent # NoRequest /\ uiVariant # "finishAwait"
       /\ Cardinality(RingOf(uiLastSent)) >= 3) =>
        uiLastSent.ring[1] = uiLastSent.ring[Len(uiLastSent.ring)]

\* The first entry, in iteration order, among those of the largest percentage.
FirstLargest(landCover) ==
    landCover[CHOOSE i \in 1..Len(landCover) :
                 /\ \A j \in 1..Len(landCover) :
                        landCover[j].percentage <= landCover[i].percentage
                 /\ \A j \in 1..(i - 1) :
                        landCover[j].percentage < landCover[i].percentage].type

\* The categories with a split of their own; every other one has the default.
SplitCategories == {"Dense Forest", "Grassland", "Agricultural"}

\* A result of calculateCarbonFromNDVIAndLandCover with numeric pools.
NdviPools ==
    /\ engInput.engine = "ndviLandCover"
    /\ engOutput # NoEstimate
    /\ engOutput.error = "none"
    /\ engInput.areaHectares # NaN

\* C23: in calculateCarbonFromNDVIAndLandCover the split into pools is that of
\* the category with the largest percentage (the first one on a tie; the
\* default split for a category other than Dense Forest, Grassland and
\* Agricultural), the ratios of every split sum to 1, and the three pools sum
\* to totalCO2e within rounding (values in hundredths).
C23_PoolSplitByDominant ==
    NdviPools =>
        LET first  == FirstLargest(engInput.landCover)
            ratios == poolRatios(first)
            total  == engOutput.total_co2e
        IN  /\ ratios.soil + ratios.aboveGround + ratios.belowGround = 100
            /\ first \notin SplitCategories => ratios = poolRatios("default")
            /\ Abs(100 * engOutput.soil_organic_carbon - ratios.soil * total) <= 100
            /\ Abs(100 * engOutput.above_ground_biomass - ratios.aboveGround * total) <= 100
            /\ Abs(100 * engOutput.below_ground_biomass - ratios.belowGround * total) <= 100
            /\ Abs(engOutput.soil_organic_carbon + engOutput.above_ground_biomass
                     + engOutput.below_ground_biomass - total) <= 2

\* Two categories tie for the largest percentage and the total is not zero.
C23_Witness ==
    /\ NdviPools
    /\ Len(engInput.landCover) = 2
    /\ engInput.landCover[1].percentage = engInput.landCover[2].percentage
    /\ poolRatios(engInput.landCover[1].type) # poolRatios(engInput.landCover[2].type)
    /\ engOutput.total_co2e > 1000

\* The done values that end polling: done === true in test-gee-hardcoded, a
\* value JavaScript treats as true in the other handlers.
EndsPolling(h, done) ==
    \/ done = "true"
    \/ h # "hardcoded" /\ done = "truthy"

\* Polling went on after the status fetch, or its budget ran out with it.
PollingWentOn ==
    \/ pc' = "wait"
    \/ /\ pc' = "responded"
       /\ response'.error = "timeout"
       /\ attempts' = maxAttempts(handler)
       /\ statusFetches = maxAttempts(handler)

\* C25 as stated: a remote-compute failure is reported if and only if a
\* status fetch returned done = true with an error, and a status response
\* with an error but without done = true, or with a non-OK HTTP status,
\* never ends polling.
C25_FailureIffDoneTrueWithError ==
    /\ [](Responded =>
            (response.error = "operation_failed"
               <=> (pollData # NoData /\ pollData.done = "true"
                      /\ pollData.error # "none")))
    /\ [][\A reply \in PollReplies :
            (PollSettled(reply) /\ reply.net = "ok"
               /\ reply.done # "true" /\ (~reply.ok \/ reply.error # "none"))
            => PollingWentOn]_vars

\* C25: a remote-compute failure is reported if and only if the body of a
\* status fetch was a JSON object whose done passed the handler's test and
\* which carried an error. The HTTP status of a status response is not read:
\* a JSON object with an error whose done does not pass the test never ends
\* polling, whatever the HTTP status, and the invocation times out after
\* maxAttempts fetches; a body that is not a JSON object ends polling with a
\* failure of its own.
C25_FailureIffDoneWithError ==
    /\ [](Responded =>
            /\ response.error = "operation_failed"
                 <=> (pollData # NoData /\ EndsPolling(handler, pollData.done)
                        /\ pollData.error # "none")
            /\ response.error = "timeout"
                 => attempts = maxAttempts(handler)
                      /\ statusFetches = maxAttempts(handler)
                      /\ notDoneFetches = maxAttempts(handler))
    /\ [][\A reply \in PollReplies :
            /\ (PollSettled(reply) /\ reply.body = "object"
                  /\ ~EndsPolling(handler, reply.done))
               => PollingWentOn
            /\ (PollSettled(reply) /\ reply.net = "ok" /\ reply.body # "object")
               => pc' = "responded"
                    /\ response'.error \in {"bad_json", "type_error"}]_vars

\* A handler with the loose test reports the failure of a job whose done is
\* a truthy value other than true, after a fetch that did not end polling.
C25_Witness ==
    /\ Responded
    /\ response.error = "operation_failed"
    /\ pollData.done = "truthy"
    /\ pollData.error = "bad_expression"
    /\ notDoneFetches >= 2

\* The markers of clicked points that are on the map.
DrawingPointLayers == {l \in uiLayers : l.name = "drawing-point"}

\* C24: in the click-to-calculate MapInterface (part_002) no drawing-point
\* marker is on the map once clearAllDrawingElements or cancelDrawing has run,
\* whatever number of points was clicked before: the markers on the map are
\* those of the points clicked since.
C24_NoMarkerAfterClear ==
    uiVariant = "clickCalc" =>
        DrawingPointLayers = {Layer("drawing-point", n) : n \in 1..Len(uiCoords)}

\* Clearing removes the markers of up to 10 points.
C24_UpToTenMarkersCleared ==
    uiVariant = "clickCalc" =>
        /\ {l \in DrawingPointLayers : l.n \in ClearedMarkerNumbers}
             = {Layer("drawing-point", n) :
                    n \in 1..Len(uiCoords) \cap ClearedMarkerNumbers}
        /\ uiClicks <= Cardinality(ClearedMarkerNumbers)
             => DrawingPointLayers = {Layer("drawing-point", n) : n \in 1..Len(uiCoords)}

\* The copies that start a calculation and go on taking input.
NonBlocking == uiVariant \in {"clickCalc", "finishAsync"}

\* C26: in the copies that do not block input while calculating, a non-null
\* carbonCalculation is the result of the request issued for the current
\* selectedArea: a late response neither overwrites a newer result nor
\* repopulates a cleared state.
C26_CarbonOfCurrentArea ==
    (NonBlocking /\ uiCarbon # NoData) =>
        /\ uiSelectedArea # NoRequest
        /\ uiCarbon.request = uiSelectedArea.request

\* A non-null carbonCalculation is the result of a request that was issued
\* and has settled.
C26_CarbonOfSomeSettledRequest ==
    (NonBlocking /\ uiCarbon # NoData) =>
        /\ uiCarbon.request \in 1..uiRequests
        /\ \A request \in uiPending : request.id # uiCarbon.request

\* A response for an earlier area is on display after a later one was selected.
C26_NoOlderResultShown ==
    (NonBlocking /\ uiCarbon # NoData /\ uiSelectedArea # NoRequest) =>
        uiCarbon.request >= uiSelectedArea.request

\* A response has filled carbonCalculation with no area selected.
C26_NoResultWithoutArea ==
    (NonBlocking /\ uiCarbon # NoData) => uiSelectedArea # NoRequest

\* C27: in every copy of MapInterface the calculating flag is true exactly
\* while at least one calculate-carbon-gee request is in flight.
C27_FlagIffRequestInFlight ==
    uiCalculating <=> uiPending # {}

\* The flag is raised when a request is sent and is down once every request
\* has settled.
C27_FlagDownWhenNoneInFlight ==
    /\ uiPending = {} => ~uiCalculating
    /\ [][uiRequests' # uiRequests => uiCalculating']_vars


(***************************************************************************)
(* TileManager with useMapTiles. A dataset is named by its id; the map is  *)
(* loaded when TileManager mounts. Each loadTile call is numbered in the   *)
(* order of the calls.                                                     *)
(***************************************************************************)
MaxLoads == 4         \* loadTile calls in one behaviour

TmDatasets == {"ndvi", "evi", "landcover"}

\* What the get-gee-tiles invocation of a loadTile call settles to.
TmReplies == {"tileUrl", "noTileUrl", "error"}

\* `tile-${activeTile.dataset.id}`
TmLayerId(dataset) == [name |-> "tile", dataset |-> dataset]

NoLayer == [name |-> "none", dataset |-> "none"]

InitTm ==
    /\ tmSelected = "none"
    /\ tmPending = {}
    /\ tmActiveTile = NoData
    /\ tmLayers = {}
    /\ tmSources = {}
    /\ tmCurrentLayerId = NoLayer
    /\ tmLoading = FALSE
    /\ tmLoads = 0
    /\ tmSettled = <<>>
    /\ PollIdle
    /\ CalcIdle
    /\ EngIdle
    /\ TileIdle
    /\ AreaIdle
    /\ ClientIdle
    /\ PxIdle

\* handleDatasetSelect, then the effect on selectedDataset: loadTile up to the
\* await of supabase.functions.invoke.
SelectDataset(dataset) ==
    /\ tmLoads < MaxLoads
    /\ dataset # tmSelected
    /\ tmSelected' = dataset
    /\ tmLoading' = TRUE
    /\ tmLoads' = tmLoads + 1
    /\ tmPending' = tmPending \cup {[id |-> tmLoads + 1, dataset |-> dataset]}
    /\ tmSettled' = Append(tmSettled, "pending")
    /\ UNCHANGED <<tmActiveTile, tmLayers, tmSources, tmCurrentLayerId>>
    /\ UNCHANGED nonTmVars

\* The invocation of a loadTile call settles: the rest of loadTile and, when
\* activeTile is set, the effect that applies the tile to the map.
LoadSettled(load, reply) ==
    /\ load \in tmPending
    /\ tmPending' = tmPending \ {load}
    /\ tmLoading' = FALSE
    /\ IF reply = "tileUrl"
       THEN /\ tmActiveTile' = [kind |-> "tile", dataset |-> load.dataset, load |-> load.id]
            /\ tmSettled' = [tmSettled EXCEPT ![load.id] = "ok"]
            /\ tmCurrentLayerId' = TmLayerId(load.dataset)
            /\ tmLayers' = (tmLayers \ {tmCurrentLayerId}) \cup {TmLayerId(load.dataset)}
            /\ tmSources' = (tmSources \ {tmCurrentLayerId}) \cup {TmLayerId(load.dataset)}
       ELSE /\ tmSettled' = [tmSettled EXCEPT ![load.id] = "failed"]
            /\ UNCHANGED <<tmActiveTile, tmLayers, tmSources, tmCurrentLayerId>>
    /\ UNCHANGED <<tmSelected, tmLoads>>
    /\ UNCHANGED nonTmVars

NextTm ==
    \/ \E dataset \in TmDatasets : SelectDataset(dataset)
    \/ \E load \in tmPending, reply \in TmReplies : LoadSettled(load, reply)

SpecTm == InitTm /\ [][NextTm]_vars

\* Every loadTile call has settled and the latest one has set activeTile.
AllLoadsSettled ==
    /\ tmLoads > 0
    /\ tmPending = {}
    /\ tmSettled[tmLoads] = "ok"

\* C28: with useMapTiles and TileManager, once all loadTile calls have
\* settled, activeTile and the tile layer of the map belong to the dataset
\* requested most recently; a failed load leaves activeTile unchanged; the map
\* holds at most one tile layer and one tile source at any time.
C28_TileOfLatestDataset ==
    /\ [](AllLoadsSettled =>
            /\ tmActiveTile.dataset = tmSelected
            /\ tmLayers = {TmLayerId(tmSelected)})
    /\ [](Cardinality(tmLayers) <= 1 /\ Cardinality(tmSources) <= 1)
    /\ [][\A load \in tmPending :
            LoadSettled(load, "error") \/ LoadSettled(load, "noTileUrl")
               => tmActiveTile' = tmActiveTile]_vars

\* A slower response for an earlier dataset replaces the tile of a later one.
C28_LatestLoadWins ==
    AllLoadsSettled => tmActiveTile.load = tmLoads

\* The tile on the map is that of activeTile, the map holds at most one tile
\* layer and source, and a failed load changes neither.
C28_OneLayerOfActiveTile ==
    /\ [](/\ Cardinality(tmLayers) <= 1
          /\ tmSources = tmLayers
          /\ tmLayers = IF tmActiveTile = NoData THEN {}
                        ELSE {TmLayerId(tmActiveTile.dataset)}
          /\ tmActiveTile # NoData => tmSettled[tmActiveTile.load] = "ok")
    /\ [][\A load \in tmPending :
            LoadSettled(load, "error") \/ LoadSettled(load, "noTileUrl")
               => tmActiveTile' = tmActiveTile /\ tmLayers' = tmLayers]_vars

(***************************************************************************)
(* The get-gee-tiles function, in its two copies:                          *)
(*   "template"  get-gee-tiles/index.ts: answers a request without tile    *)
(*               coordinates with a URL template that points back to the   *)
(*               function, and proxies a tile in two fetches               *)
(*   "upstream"  part_007: asks the tile server for the tile_url and       *)
(*               returns it, and proxies a tile in one fetch               *)
(* A text (a URL, a message, a body) is the set of the things it is made   *)
(* of: "apiKey" is the value of GEE_TILE_SERVER_API_KEY, "upstream" is     *)
(* content chosen by the server that answered a fetch.                     *)
(***************************************************************************)
PxVariants == {"template", "upstream"}

\* keySet: GEE_TILE_SERVER_API_KEY is set; bodyOk: req.json() resolves;
\* dataset: the dataset named, "none" without one; coords: z, x and y are given.
PxRequests ==
    [keySet : BOOLEAN, method : {"POST"}, bodyOk : BOOLEAN,
     dataset : {"none"} \cup TmDatasets, coords : BOOLEAN]
      \cup [keySet : BOOLEAN, method : {"GET"}, bodyOk : {TRUE},
            dataset : {"none"} \cup TmDatasets, coords : BOOLEAN]

\* What a fetch settles to. message: whether the message of the rejection
\* names the URL of the request, as the runtime's "error sending request for
\* url (...)" does.
PxApiReplies ==
    [net : {"ok"}, ok : BOOLEAN, body : {"object"}, tile_url : BOOLEAN, message : {"none"}]
      \cup [net : {"ok"}, ok : BOOLEAN, body : {"null", "invalid"}, tile_url : {FALSE},
            message : {"none"}]
      \cup [net : {"throw"}, ok : {FALSE}, body : {"invalid"}, tile_url : {FALSE},
            message : {"plain", "withUrl"}]

PxTileReplies ==
    [net : {"ok"}, ok : BOOLEAN, message : {"none"}]
      \cup [net : {"throw"}, ok : {FALSE}, message : {"plain", "withUrl"}]

\* https://gee-tile-server.vercel.app/api/tiles?dataset=..&year=..&month=..&apikey=${geeApiKey}
apiUrl == {"serverHost", "dataset", "year", "month", "apiKey"}

\* https://gee-tile-server.vercel.app/api/tiles/${z}/${x}/${y}?dataset=..&apikey=${geeApiKey}
proxiedTileUrl == {"serverHost", "coords", "dataset", "year", "month", "apiKey"}

\* https://<project>.supabase.co/functions/v1/get-gee-tiles?dataset=..&z={z}&x={x}&y={y}
customTileUrl == {"functionHost", "dataset", "year", "month"}

\* apiData.tile_url with {z}, {x}, {y} replaced
upstreamTileUrl == {"upstream", "coords"}

\* error.message of a rejected fetch.
FetchMessage(message, url) ==
    IF message = "withUrl" THEN {"text"} \cup url ELSE {"text"}

PxResponse(status, body) == [kind |-> "response", status |-> status, body |-> body]

\* The status of a response of the tile server that is not ok.
UpstreamStatus == 502

InitPx ==
    /\ pxVariant \in PxVariants
    /\ pxPc = "idle"
    /\ pxRequest = NoRequest
    /\ pxFetched = {}
    /\ pxResponse = NoResponse
    /\ PollIdle
    /\ CalcIdle
    /\ EngIdle
    /\ TileIdle
    /\ AreaIdle
    /\ ClientIdle
    /\ TmIdle

PxRespond(status, body) ==
    /\ pxResponse' = PxResponse(status, body)
    /\ pxPc' = "responded"
    /\ pxFetched' = {}

PxFetch(url, next) ==
    /\ pxFetched' = url
    /\ pxPc' = next
    /\ UNCHANGED pxResponse

\* The request arrives: the handler up to its first fetch or Response.
PxReceive(request) ==
    /\ pxPc = "idle"
    /\ pxRequest' = request
    /\ IF ~request.keySet
         THEN PxRespond(StatusInternalError, {"text"})
       ELSE IF request.method = "POST" /\ ~request.bodyOk
         THEN PxRespond(StatusInternalError, {"text"})
       ELSE IF request.dataset = "none"
         THEN PxRespond(StatusBadRequest, {"text"})
       ELSE IF request.coords
         THEN IF pxVariant = "template" THEN PxFetch(apiUrl, "api")
              ELSE PxFetch(proxiedTileUrl, "tile")
       ELSE IF pxVariant = "template"
         THEN PxRespond(StatusOK, customTileUrl \cup {"text"})
         ELSE PxFetch(apiUrl, "api")
    /\ UNCHANGED pxVariant
    /\ UNCHANGED nonPxVars

\* The fetch of apiUrl settles.
PxApiSettled(reply) ==
    /\ pxPc = "api"
    /\ IF pxVariant = "template"
       THEN IF reply.net = "throw"
              THEN PxRespond(StatusInternalError, FetchMessage(reply.message, pxFetched))
            ELSE IF ~reply.ok
              THEN PxRespond(UpstreamStatus, {"text", "status"})
            ELSE IF reply.body # "object"
              THEN PxRespond(StatusInternalError, {"text"})
            ELSE IF ~reply.tile_url
              THEN PxRespond(StatusInternalError, {"text"})
            ELSE PxFetch(upstreamTileUrl, "tile")
       ELSE IF reply.net = "throw"
              THEN PxRespond(StatusInternalError,
                             FetchMessage(reply.message, pxFetched) \cup apiUrl)
            ELSE IF ~reply.ok
              THEN PxRespond(StatusInternalError, {"text", "status", "upstream"} \cup apiUrl)
            ELSE IF reply.body # "object"
              THEN PxRespond(StatusInternalError, {"text"} \cup apiUrl)
            ELSE IF reply.tile_url
              THEN PxRespond(StatusOK, {"text", "upstream", "dataset", "year", "month"})
            ELSE PxRespond(StatusInternalError, {"text", "upstream"})
    /\ UNCHANGED <<pxVariant, pxRequest>>
    /\ UNCHANGED nonPxVars

\* The fetch of the tile settles.
PxTileSettled(reply) ==
    /\ pxPc = "tile"
    /\ IF reply.net = "throw"
         THEN PxRespond(StatusInternalError, FetchMessage(reply.message, pxFetched))
       ELSE IF ~reply.ok
         THEN PxRespond(UpstreamStatus, {"text", "status"})
       ELSE PxRespond(StatusOK, {"upstream"})
    /\ UNCHANGED <<pxVariant, pxRequest>>
    /\ UNCHANGED nonPxVars

NextPx ==
    \/ \E request \in PxRequests : PxReceive(request)
    \/ \E reply \in PxApiReplies : PxApiSettled(reply)
    \/ \E reply \in PxTileReplies : PxTileSettled(reply)

SpecPx == InitPx /\ [][NextPx]_vars

\* C29: no response body of get-gee-tiles contains the value of
\* GEE_TILE_SERVER_API_KEY, on the success path or on any error path, in
\* either copy of the function.
C29_NoKeyInBody ==
    pxResponse # NoResponse => "apiKey" \notin pxResponse.body

\* The bodies of the successful responses and of the failures decided before
\* the first fetch do not contain the key.
C29_NoKeyOnSuccess ==
    pxResponse # NoResponse =>
        /\ pxResponse.status \in {StatusOK, StatusBadRequest, UpstreamStatus}
             => "apiKey" \notin pxResponse.body
        /\ (pxVariant = "template" /\ "apiKey" \in pxResponse.body)
             => pxRequest.coords

\* The copy that returns the upstream tile_url puts apiUrl into the body of
\* every failure of its request to the tile server.
C29_UpstreamCopyKeepsKeyOut ==
    (pxResponse # NoResponse /\ pxVariant = "upstream") => "apiKey" \notin pxResponse.body

\* The copy that returns the template puts the message of a rejected fetch
\* into the body.
C29_TemplateCopyKeepsKeyOut ==
    (pxResponse # NoResponse /\ pxVariant = "template") => "apiKey" \notin pxResponse.body

\* The live variant has drawn a land cover for a ring with a centroid.
LandCoverDrawn ==
    /\ calcHandler = "live"
    /\ calcPc \in {"db", "responded"}
    /\ calcEstimate # NoEstimate
    /\ calcRequest.geometry.ring # <<>>

\* C30: generateRealisticLandCover selects the arid mix for every centroid
\* that satisfies its arid predicate (20 < |lat| < 40 and |lon| > 100 or
\* |lon| < 20), and each of the four mixes is selected for some centroid.
C30_AridPredicateSelectsAridMix ==
    /\ (LandCoverDrawn /\ isArid(calcRequest.geometry.ring))
         => calcEstimate.land_cover \in AridMixes
    /\ \A mixes \in {ForestedMixes, TropicalMixes, AridMixes, DefaultMixes} :
         \E ring \in Rings : ring # <<>> /\ generateRealisticLandCover(ring) = mixes

\* The bands are tested in the order forested, tropical, arid: the arid mix
\* is selected only where the two other tests fail, at |lat| = 30.
C30_AridMixOnlyAtThirty ==
    LandCoverDrawn =>
        LET ring == calcRequest.geometry.ring
        IN  /\ calcEstimate.land_cover \in AridMixes
              <=> (isArid(ring) /\ Abs(SumLat(ring)) = 30 * Len(ring))
            /\ isForested(ring) => calcEstimate.land_cover \in ForestedMixes
            /\ (isTropical(ring) /\ ~isForested(ring))
                 => calcEstimate.land_cover \in TropicalMixes

\* Each of the four mixes is selected for some centroid.
C30_EveryMixSelected ==
    \A mixes \in {ForestedMixes, TropicalMixes, AridMixes, DefaultMixes} :
        \E ring \in Rings : ring # <<>> /\ generateRealisticLandCover(ring) = mixes
=============================================================================
